---- MODULE Spec2Model ----
(***************************************************************************)
(* Proof-of-work target computation and verification of Marscoin:          *)
(* src/src/pow.cpp (GetNextWorkRequired and the four difficulty            *)
(* algorithms, CheckProofOfWork, GetBlockProof) over the chain parameters  *)
(* of src/src/kernel/chainparams.cpp.                                      *)
(*                                                                         *)
(* TLC's integers are 32 bits wide, so 256-bit targets (uint256) and       *)
(* unbounded big numbers (CBigNum) are sequences of bytes, least           *)
(* significant byte first, with no leading zero byte (zero is <<>>).       *)
(***************************************************************************)
EXTENDS Integers, Sequences, FiniteSets, TLC

(***************************************************************************)
(* Byte-sequence naturals.                                                 *)
(***************************************************************************)
\* The operations that carry from digit to digit work on the two halves of
\* the digits in turn, the state left by one half handed to the other.
Dig(a, i) == IF i <= Len(a) THEN a[i] ELSE 0

MaxOf(S) == CHOOSE m \in S : \A k \in S : k <= m

BNorm(a) ==
    IF {i \in 1 .. Len(a) : a[i] # 0} = {} THEN <<>>
    ELSE SubSeq(a, 1, MaxOf({i \in 1 .. Len(a) : a[i] # 0}))

RECURSIVE BFromInt(_)
BFromInt(n) == IF n = 0 THEN <<>> ELSE <<n % 256>> \o BFromInt(n \div 256)

RECURSIVE BToIntFrom(_, _)
BToIntFrom(a, i) == IF i > Len(a) THEN 0 ELSE a[i] + 256 * BToIntFrom(a, i + 1)

\* the value of a, for a < 2^31
BToInt(a) == BToIntFrom(a, 1)

\* -1, 0, 1 as a < b, a = b, a > b
BCmp(a, b) ==
    IF Len(a) < Len(b) THEN -1
    ELSE IF Len(a) > Len(b) THEN 1
    ELSE IF {i \in 1 .. Len(a) : a[i] # b[i]} = {} THEN 0
    ELSE IF a[MaxOf({i \in 1 .. Len(a) : a[i] # b[i]})]
              < b[MaxOf({i \in 1 .. Len(a) : a[i] # b[i]})] THEN -1
    ELSE 1

BLt(a, b) == BCmp(a, b) < 0
BLe(a, b) == BCmp(a, b) <= 0
BGt(a, b) == BCmp(a, b) > 0

\* digits lo .. hi of a + b + c: <<digits, carry out>>
RECURSIVE BAddRange(_, _, _, _, _)
BAddRange(a, b, lo, hi, c) ==
    IF lo = hi
    THEN <<<<(Dig(a, lo) + Dig(b, lo) + c) % 256>>, (Dig(a, lo) + Dig(b, lo) + c) \div 256>>
    ELSE CHOOSE r \in UNION
           {{<<l[1] \o h[1], h[2]>> :
               h \in {BAddRange(a, b, ((lo + hi) \div 2) + 1, hi, l[2])}} :
               l \in {BAddRange(a, b, lo, (lo + hi) \div 2, c)}} : TRUE

BAddLen(a, b) == IF Len(a) >= Len(b) THEN Len(a) + 1 ELSE Len(b) + 1

BAdd(a, b) == BNorm(BAddRange(a, b, 1, BAddLen(a, b), 0)[1])

\* digits lo .. hi of a - b - w: <<digits, borrow out>>
RECURSIVE BSubRange(_, _, _, _, _)
BSubRange(a, b, lo, hi, w) ==
    IF lo = hi
    THEN <<<<(Dig(a, lo) - Dig(b, lo) - w) % 256>>,
           IF Dig(a, lo) - Dig(b, lo) - w < 0 THEN 1 ELSE 0>>
    ELSE CHOOSE r \in UNION
           {{<<l[1] \o h[1], h[2]>> :
               h \in {BSubRange(a, b, ((lo + hi) \div 2) + 1, hi, l[2])}} :
               l \in {BSubRange(a, b, lo, (lo + hi) \div 2, w)}} : TRUE

\* a - b, for a >= b
BSub(a, b) == IF a = <<>> THEN <<>> ELSE BNorm(BSubRange(a, b, 1, Len(a), 0)[1])

\* digits lo .. hi of a * m + c: <<digits, carry out>>
RECURSIVE BMulRange(_, _, _, _, _)
BMulRange(a, m, lo, hi, c) ==
    IF lo = hi
    THEN <<<<(a[lo] * m + c) % 256>>, (a[lo] * m + c) \div 256>>
    ELSE CHOOSE r \in UNION
           {{<<l[1] \o h[1], h[2]>> :
               h \in {BMulRange(a, m, ((lo + hi) \div 2) + 1, hi, l[2])}} :
               l \in {BMulRange(a, m, lo, (lo + hi) \div 2, c)}} : TRUE

\* a * m, for 0 <= m < 2^22
BMulSmall(a, m) ==
    IF m = 0 \/ a = <<>> THEN <<>>
    ELSE BMulRange(a, m, 1, Len(a), 0)[1] \o BFromInt(BMulRange(a, m, 1, Len(a), 0)[2])

\* digits hi down to lo of (r * 256^(hi - lo + 1) + a[lo .. hi]) / d:
\* <<quotient digits, remainder>>
RECURSIVE BDivRange(_, _, _, _, _)
BDivRange(a, d, lo, hi, r) ==
    IF lo = hi
    THEN <<<<(r * 256 + a[lo]) \div d>>, (r * 256 + a[lo]) % d>>
    ELSE CHOOSE q \in UNION
           {{<<l[1] \o h[1], l[2]>> :
               l \in {BDivRange(a, d, lo, (lo + hi) \div 2, h[2])}} :
               h \in {BDivRange(a, d, ((lo + hi) \div 2) + 1, hi, r)}} : TRUE

\* floor(a / d), for 0 < d < 2^23
BDivSmall(a, d) == IF a = <<>> THEN <<>> ELSE BNorm(BDivRange(a, d, 1, Len(a), 0)[1])

\* a mod d, for 0 < d < 2^23
BModSmall(a, d) == IF a = <<>> THEN 0 ELSE BDivRange(a, d, 1, Len(a), 0)[2]

Pow2(n) == 2 ^ n

Zeros(n) == [i \in 1 .. n |-> 0]

\* a << n and a >> n on an unbounded natural
BShl(a, n) ==
    IF a = <<>> THEN <<>> ELSE Zeros(n \div 8) \o BMulSmall(a, Pow2(n % 8))

BShr(a, n) ==
    IF n \div 8 >= Len(a) THEN <<>>
    ELSE BDivSmall(SubSeq(a, (n \div 8) + 1, Len(a)), Pow2(n % 8))

RECURSIVE BitLen(_)
BitLen(n) == IF n = 0 THEN 0 ELSE 1 + BitLen(n \div 2)

\* position of the highest set bit, plus one (0 for zero)
BBits(a) == IF a = <<>> THEN 0 ELSE 8 * (Len(a) - 1) + BitLen(a[Len(a)])

\* a mod 2^(8 * n)
BTrunc(a, n) == IF Len(a) <= n THEN a ELSE BNorm(SubSeq(a, 1, n))

\* the largest q in lo .. hi with b * q <= r (b * lo <= r is given)
RECURSIVE BQuotDigit(_, _, _, _)
BQuotDigit(r, b, lo, hi) ==
    IF lo = hi THEN lo
    ELSE IF BLe(BMulSmall(b, (lo + hi + 1) \div 2), r)
         THEN BQuotDigit(r, b, (lo + hi + 1) \div 2, hi)
         ELSE BQuotDigit(r, b, lo, ((lo + hi + 1) \div 2) - 1)

\* one step of schoolbook long division: <<quotient digit, remainder>> of cur / b
\* for cur < 256 * b
BDivStep(cur, b) ==
    IF BLt(cur, b) THEN <<0, cur>>
    ELSE CHOOSE st \in {<<q, BSub(cur, BMulSmall(b, q))>> :
                          q \in {BQuotDigit(cur, b, 0, 255)}} : TRUE

\* digits hi down to lo of a / b, r the remainder of the digits above hi:
\* <<quotient digits, remainder>>
RECURSIVE BDivBigRange(_, _, _, _, _)
BDivBigRange(a, b, lo, hi, r) ==
    IF lo = hi
    THEN CHOOSE q \in {<<<<st[1]>>, st[2]>> :
                         st \in {BDivStep(BNorm(<<a[lo]>> \o r), b)}} : TRUE
    ELSE CHOOSE q \in UNION
           {{<<l[1] \o h[1], l[2]>> :
               l \in {BDivBigRange(a, b, lo, (lo + hi) \div 2, h[2])}} :
               h \in {BDivBigRange(a, b, ((lo + hi) \div 2) + 1, hi, r)}} : TRUE

\* floor(a / b), for b > 0
BDiv(a, b) == IF a = <<>> THEN <<>> ELSE BNorm(BDivBigRange(a, b, 1, Len(a), <<>>)[1])

(***************************************************************************)
(* Compact targets (nBits).  A compact value is a 32-bit word: the high    *)
(* byte is the size in bytes, bit 23 the sign, the low 23 bits the         *)
(* mantissa.  uint256 and CBigNum are not part of the sources at hand;     *)
(* both conversions follow the contract of the specification, 4.A.         *)
(***************************************************************************)
CompactSize(nCompact) == nCompact \div 16777216

CompactMantissa(nCompact) == nCompact % 8388608

CompactSignBit(nCompact) == (nCompact \div 8388608) % 2

\* CBigNum::SetCompact on a word whose sign bit is clear: the unbounded value
BigSetCompact(nCompact) ==
    IF CompactSize(nCompact) <= 3
    THEN BFromInt(CompactMantissa(nCompact) \div Pow2(8 * (3 - CompactSize(nCompact))))
    ELSE BNorm(Zeros(CompactSize(nCompact) - 3) \o BFromInt(CompactMantissa(nCompact)))

\* uint256::SetCompact: the value, kept to 256 bits
SetCompact(nCompact) == BTrunc(BigSetCompact(nCompact), 32)

CompactNegative(nCompact) ==
    CompactSignBit(nCompact) # 0 /\ CompactMantissa(nCompact) # 0

CompactOverflow(nCompact) ==
    /\ CompactMantissa(nCompact) # 0
    /\ \/ CompactSize(nCompact) > 34
       \/ (CompactMantissa(nCompact) > 255 /\ CompactSize(nCompact) > 33)
       \/ (CompactMantissa(nCompact) > 65535 /\ CompactSize(nCompact) > 32)

\* the three most significant bytes of a, as a word (a of at most 3 bytes is
\* shifted up to three bytes)
CompactWord(a) ==
    IF Len(a) <= 3
    THEN BToInt(a) * Pow2(8 * (3 - Len(a)))
    ELSE BToInt(SubSeq(a, Len(a) - 2, Len(a)))

\* GetCompact without the step that keeps the mantissa's sign bit clear
GetCompactSignBitKept(a) == CompactWord(a) + Len(a) * 16777216

\* uint256::GetCompact and CBigNum::GetCompact of a non-negative value
GetCompact(a) ==
    IF CompactWord(a) >= 8388608
    THEN (CompactWord(a) \div 256) + (Len(a) + 1) * 16777216
    ELSE CompactWord(a) + Len(a) * 16777216

(***************************************************************************)
(* Chain parameters (kernel/chainparams.cpp).  pow.cpp reads them through  *)
(* Params(): ProofOfWorkLimit, TargetTimespan, TargetSpacing, Interval,    *)
(* AllowMinDifficultyBlocks, RequireStandard and SkipProofOfWorkCheck.     *)
(* The last two are set by no network table at hand and are inputs.        *)
(***************************************************************************)
Networks == {"MAIN", "TESTNET", "TESTNET4", "SIGNET", "REGTEST"}

\* 00000fffff...ff: 2^236 - 1
powLimit == [i \in 1 .. 29 |-> 255] \o <<15>>

nPowTargetTimespan == 302400

nPowTargetSpacing == 150

nASERTHalfLife == 7200

fPowAllowMinDifficultyBlocks(net) == net \in {"TESTNET", "TESTNET4", "REGTEST"}

fPowNoRetargeting(net) == net = "REGTEST"

\* the networks whose table sets consensus.nASERTAnchor
SetsASERTAnchor(net) == net \in {"MAIN", "TESTNET", "TESTNET4"}

\* consensus.nASERTAnchor, for the networks that set it
nASERTAnchor(net) == IF net = "MAIN" THEN 2999999 ELSE 100

\* the signet word on every network
GenesisBitsOfSignet(net) == 503543726

\* nBits of the genesis block
GenesisBits(net) == IF net = "SIGNET" THEN 503543726 ELSE 504365040

GenesisTime(net) ==
    IF net = "SIGNET" THEN 1598918400
    ELSE IF net = "TESTNET" THEN 1732912000
    ELSE 1388590627

\* Params().Interval(): the difficulty adjustment interval
Interval == nPowTargetTimespan \div nPowTargetSpacing

\* Params().ProofOfWorkLimit().GetCompact()
nProofOfWorkLimit == GetCompact(powLimit)

\* MessageStart(): the four bytes that open every network message.  The signet
\* bytes are the first four of the double SHA-256 of the serialized default
\* challenge, 0a 03 cf 40.
pchMessageStart(n) ==
    IF n = "MAIN" THEN <<251, 192, 182, 219>>
    ELSE IF n = "TESTNET" THEN <<250, 175, 222, 237>>
    ELSE IF n = "TESTNET4" THEN <<252, 193, 183, 220>>
    ELSE IF n = "REGTEST" THEN <<250, 191, 181, 218>>
    ELSE <<10, 3, 207, 64>>

\* the comparison of the first byte alone
MagicFirstByteEqual(message, msg) == message[1] = msg[1]

\* std::equal(message.begin(), message.end(), msg.data())
MagicEqual(message, msg) == \A i \in 1 .. 4 : message[i] = msg[i]

nullopt == "nullopt"

GetNetworkForMagic(message) ==
    IF MagicEqual(message, pchMessageStart("MAIN")) THEN "MAIN"
    ELSE IF MagicEqual(message, pchMessageStart("TESTNET")) THEN "TESTNET"
    ELSE IF MagicEqual(message, pchMessageStart("TESTNET4")) THEN "TESTNET4"
    ELSE IF MagicEqual(message, pchMessageStart("REGTEST")) THEN "REGTEST"
    ELSE IF MagicEqual(message, pchMessageStart("SIGNET")) THEN "SIGNET"
    ELSE nullopt

(***************************************************************************)
(* The block index.  A chain is a sequence of runs of consecutive blocks,  *)
(* oldest first; the blocks lo .. hi of a run share nBits and are dt       *)
(* seconds apart, the first at time t0.  A CBlockIndex pointer is the      *)
(* height of the node on the chain, or NULL; pprev of the lowest node is   *)
(* NULL.                                                                   *)
(***************************************************************************)
NULL == 0 - 1

Run(lo, hi, nBits, t0, dt) == [lo |-> lo, hi |-> hi, nBits |-> nBits, t0 |-> t0, dt |-> dt]

RunOf(c, h) == CHOOSE i \in 1 .. Len(c) : c[i].lo <= h /\ h <= c[i].hi

GetBlockTime(c, h) == c[RunOf(c, h)].t0 + c[RunOf(c, h)].dt * (h - c[RunOf(c, h)].lo)

nBitsOf(c, h) == c[RunOf(c, h)].nBits

TipOf(c) == c[Len(c)].hi

LowestOf(c) == c[1].lo

pprev(c, h) == IF h > LowestOf(c) THEN h - 1 ELSE NULL

\* for (i = 0; p && i < n; i++) p = p->pprev
WalkBack(c, p, n) ==
    IF p = NULL THEN NULL
    ELSE IF p - n >= LowestOf(c) THEN p - n
    ELSE NULL

\* the chain with one more block on its tip
Connect(c, nBits, nTime) == Append(c, Run(TipOf(c) + 1, TipOf(c) + 1, nBits, nTime, 0))

(***************************************************************************)
(* GetNextWorkRequired_V1: the legacy retarget with the sol-day forks.     *)
(***************************************************************************)
nForkOne == 14260

nForkTwo == 70000

V1TargetTimespan(nHeight) == IF nHeight >= nForkOne THEN 88775 ELSE nPowTargetTimespan

V1TargetSpacing(nHeight) == IF nHeight >= nForkTwo THEN 123 ELSE nPowTargetSpacing

\* the interval as timespan / spacing at every height
V1IntervalByDivision(nHeight) == V1TargetTimespan(nHeight) \div V1TargetSpacing(nHeight)

V1Interval(nHeight) ==
    IF nHeight >= nForkTwo
    THEN V1TargetTimespan(nHeight) \div V1TargetSpacing(nHeight)
    ELSE Interval

\* the loop condition without the test of the height
IsMinDifficultyStepAnyHeight(c, pindex, nInterval) ==
    /\ pprev(c, pindex) # NULL
    /\ nBitsOf(c, pindex) = nProofOfWorkLimit

\* the loop condition of the walk back over min-difficulty blocks
IsMinDifficultyStep(c, pindex, nInterval) ==
    /\ pprev(c, pindex) # NULL
    /\ pindex % nInterval # 0
    /\ nBitsOf(c, pindex) = nProofOfWorkLimit

\* the nodes at which the walk from pindex can stop: the lowest node, the last
\* multiple of nInterval, and the top of each run of equal blocks
MinDifficultyStops(c, pindex, nInterval) ==
    {LowestOf(c), pindex}
    \cup {h \in {(pindex \div nInterval) * nInterval} : h >= LowestOf(c)}
    \cup {c[i].hi : i \in {j \in 1 .. Len(c) : c[j].hi <= pindex}}

\* while (pindex->pprev && pindex->nHeight % nInterval != 0 &&
\*        pindex->nBits == nProofOfWorkLimit) pindex = pindex->pprev;
\* the walk ends at the highest node at or below pindex where the condition fails
LastNonMinDifficulty(c, pindex, nInterval) ==
    CHOOSE p \in MinDifficultyStops(c, pindex, nInterval) :
        /\ ~IsMinDifficultyStep(c, p, nInterval)
        /\ \A q \in MinDifficultyStops(c, pindex, nInterval) :
              ~IsMinDifficultyStep(c, q, nInterval) => q <= p

\* the full interval at every boundary
V1BlocksToGoBackFull(pindexLast, nInterval) == nInterval

V1BlocksToGoBack(pindexLast, nInterval) ==
    IF pindexLast + 1 # nInterval THEN nInterval ELSE nInterval - 1

\* a timespan above the target raised to four times the target
V1ClampSlowToMax(nActualTimespan, nTargetTimespan) ==
    IF nActualTimespan < nTargetTimespan \div 4 THEN nTargetTimespan \div 4
    ELSE IF nActualTimespan > nTargetTimespan THEN nTargetTimespan * 4
    ELSE nActualTimespan

V1ClampTimespan(nActualTimespan, nTargetTimespan) ==
    IF nActualTimespan < nTargetTimespan \div 4 THEN nTargetTimespan \div 4
    ELSE IF nActualTimespan > nTargetTimespan * 4 THEN nTargetTimespan * 4
    ELSE nActualTimespan

\* the retarget without the shift that guards the product
V1RetargetUnguarded(bnOld, nActualTimespan, nTargetTimespan) ==
    BDivSmall(BTrunc(BMulSmall(bnOld, nActualTimespan), 32), nTargetTimespan)

\* bnNew of the retarget, before the limit is applied (uint256 arithmetic)
V1Retarget(bnOld, nActualTimespan, nTargetTimespan) ==
    IF BBits(bnOld) > 235
    THEN BTrunc(BShl(BDivSmall(BTrunc(BMulSmall(BShr(bnOld, 1), nActualTimespan), 32),
                               nTargetTimespan), 1), 32)
    ELSE BDivSmall(BTrunc(BMulSmall(bnOld, nActualTimespan), 32), nTargetTimespan)

\* bnNew left as the retarget gives it
NotClampedToLimit(bnNew) == bnNew

ClampToLimit(bnNew) == IF BGt(bnNew, powLimit) THEN powLimit ELSE bnNew

\* what a call gives whose assertion fails: the process ends and no word is
\* returned
AssertFailed == 0 - 2

\* the retarget branch, after assert(pindexFirst)
V1AtBoundary(c, pindexLast, pindexFirst, nTargetTimespan) ==
    IF pindexFirst = NULL THEN AssertFailed
    ELSE GetCompact(ClampToLimit(V1Retarget(
        SetCompact(nBitsOf(c, pindexLast)),
        V1ClampTimespan(GetBlockTime(c, pindexLast) - GetBlockTime(c, pindexFirst),
                        nTargetTimespan),
        nTargetTimespan)))

\* V1OffBoundary with the min-difficulty rule applied on every network
V1OffBoundaryAnyNetwork(net, c, pindexLast, pblockTime, nHeight) ==
    IF pblockTime > GetBlockTime(c, pindexLast) + V1TargetSpacing(nHeight) * 2
    THEN nProofOfWorkLimit
    ELSE nBitsOf(c, LastNonMinDifficulty(c, pindexLast, V1Interval(nHeight)))

V1OffBoundary(net, c, pindexLast, pblockTime, nHeight) ==
    IF fPowAllowMinDifficultyBlocks(net)
    THEN IF pblockTime > GetBlockTime(c, pindexLast) + V1TargetSpacing(nHeight) * 2
         THEN nProofOfWorkLimit
         ELSE nBitsOf(c, LastNonMinDifficulty(c, pindexLast, V1Interval(nHeight)))
    ELSE nBitsOf(c, pindexLast)

GetNextWorkRequired_V1(net, c, pindexLast, pblockTime) ==
    IF pindexLast = NULL THEN nProofOfWorkLimit
    ELSE IF (pindexLast + 1) % V1Interval(pindexLast + 1) # 0
    THEN V1OffBoundary(net, c, pindexLast, pblockTime, pindexLast + 1)
    ELSE V1AtBoundary(c, pindexLast,
                      WalkBack(c, pindexLast,
                               V1BlocksToGoBack(pindexLast, V1Interval(pindexLast + 1))),
                      V1TargetTimespan(pindexLast + 1))

(***************************************************************************)
(* DarkGravityWave3: the average target of the last 24 blocks, scaled by   *)
(* the time they took.                                                     *)
(***************************************************************************)
DGW3PastBlocksMin == 24

DGW3PastBlocksMax == 24

MarsTargetSpacing == 123

\* a / b rounded toward zero, as C++ divides (b > 0)
TruncDiv(a, b) == IF a >= 0 THEN a \div b ELSE -((-a) \div b)

\* the loop variables with a last block time before the first block is read
DGW3StartTimed ==
    [CountBlocks |-> 0, PastDifficultyAverage |-> <<>>,
     nActualTimespan |-> 0, LastBlockTime |-> 1]

\* the loop variables before the first pass
DGW3Start ==
    [CountBlocks |-> 0, PastDifficultyAverage |-> <<>>,
     nActualTimespan |-> 0, LastBlockTime |-> 0]

\* the loop body with Diff taken the other way round, the time of the block
\* read less the time of the block read before it
DGW3ReadNegative(c, st, BlockReading) ==
    [CountBlocks |-> st.CountBlocks + 1,
     PastDifficultyAverage |->
        IF st.CountBlocks + 1 > DGW3PastBlocksMin THEN st.PastDifficultyAverage
        ELSE IF st.CountBlocks + 1 = 1 THEN BigSetCompact(nBitsOf(c, BlockReading))
        ELSE BDivSmall(BAdd(BMulSmall(st.PastDifficultyAverage, st.CountBlocks + 1),
                            BigSetCompact(nBitsOf(c, BlockReading))),
                       st.CountBlocks + 2),
     nActualTimespan |->
        IF st.LastBlockTime > 0
        THEN st.nActualTimespan + (GetBlockTime(c, BlockReading) - st.LastBlockTime)
        ELSE st.nActualTimespan,
     LastBlockTime |-> GetBlockTime(c, BlockReading)]

\* one pass of the loop body over the block BlockReading
DGW3Read(c, st, BlockReading) ==
    [CountBlocks |-> st.CountBlocks + 1,
     PastDifficultyAverage |->
        IF st.CountBlocks + 1 > DGW3PastBlocksMin THEN st.PastDifficultyAverage
        ELSE IF st.CountBlocks + 1 = 1 THEN BigSetCompact(nBitsOf(c, BlockReading))
        ELSE BDivSmall(BAdd(BMulSmall(st.PastDifficultyAverage, st.CountBlocks + 1),
                            BigSetCompact(nBitsOf(c, BlockReading))),
                       st.CountBlocks + 2),
     nActualTimespan |->
        IF st.LastBlockTime > 0
        THEN st.nActualTimespan + (st.LastBlockTime - GetBlockTime(c, BlockReading))
        ELSE st.nActualTimespan,
     LastBlockTime |-> GetBlockTime(c, BlockReading)]

\* the number of passes of
\*   for (i = 1; BlockReading && BlockReading->nHeight > 0; i++)
\* the loop leaves after PastBlocksMax passes, at height 0, and at the block
\* that has no pprev
WalkCount(c, pindexLast, PastBlocksMax) ==
    IF pindexLast = NULL THEN 0
    ELSE IF pindexLast - (IF LowestOf(c) > 1 THEN LowestOf(c) ELSE 1) + 1 > PastBlocksMax
         THEN PastBlocksMax
         ELSE IF pindexLast - (IF LowestOf(c) > 1 THEN LowestOf(c) ELSE 1) + 1 < 0 THEN 0
         ELSE pindexLast - (IF LowestOf(c) > 1 THEN LowestOf(c) ELSE 1) + 1

\* passes lo .. hi of the loop, pass i reading the block i - 1 below pindexLast
RECURSIVE DGW3Walk(_, _, _, _, _)
DGW3Walk(c, pindexLast, lo, hi, st) ==
    IF lo > hi THEN st
    ELSE IF lo = hi THEN DGW3Read(c, st, pindexLast - (lo - 1))
    ELSE CHOOSE r \in
           {DGW3Walk(c, pindexLast, ((lo + hi) \div 2) + 1, hi, s2) :
               s2 \in {DGW3Walk(c, pindexLast, lo, (lo + hi) \div 2, st)}} : TRUE

\* the measured timespan taken as it is
TimespanNotClamped(nActualTimespan, nTargetTimespan) == nActualTimespan

\* the timespan held within a third and three times the target timespan
ClampTimespan3(nActualTimespan, nTargetTimespan) ==
    IF nActualTimespan < nTargetTimespan \div 3 THEN nTargetTimespan \div 3
    ELSE IF nActualTimespan > nTargetTimespan * 3 THEN nTargetTimespan * 3
    ELSE nActualTimespan

\* if (bnNew.GetCompact() > limit.GetCompact()) bnNew.SetCompact(limit.GetCompact())
ClampCompact(bnNew) ==
    IF GetCompact(bnNew) > nProofOfWorkLimit
    THEN GetCompact(BigSetCompact(nProofOfWorkLimit))
    ELSE GetCompact(bnNew)

DGW3Retarget(st) ==
    IF st.PastDifficultyAverage = <<>> \/ BGt(st.PastDifficultyAverage, powLimit)
    THEN GetCompact(powLimit)
    ELSE ClampCompact(BDivSmall(
             BMulSmall(st.PastDifficultyAverage,
                       ClampTimespan3(st.nActualTimespan,
                                      st.CountBlocks * MarsTargetSpacing)),
             st.CountBlocks * MarsTargetSpacing))

DarkGravityWave3(c, pindexLast) ==
    IF pindexLast = NULL \/ pindexLast = 0 \/ pindexLast < DGW3PastBlocksMin
    THEN nProofOfWorkLimit
    ELSE DGW3Retarget(DGW3Walk(c, pindexLast, 1,
                               WalkCount(c, pindexLast, DGW3PastBlocksMax), DGW3Start))

(***************************************************************************)
(* DarkGravityWave2: the average target of the last 14 blocks, scaled by   *)
(* a weighted block time over up to 140 blocks.  The floating-point steps  *)
(* are taken exactly, as rationals, without rounding.                      *)
(***************************************************************************)
DGW2PastBlocksMin == 14

DGW2PastBlocksMax == 140

DGW2Start ==
    [CountBlocks |-> 0, PastDifficultyAverage |-> <<>>,
     nBlockTimeAverage |-> 0, nBlockTimeCount |-> 0,
     nBlockTimeSum2 |-> 0, nBlockTimeCount2 |-> 0, LastBlockTime |-> 0]

\* ((x - prev) / n) + prev on big numbers, the division rounding toward zero
DGW2Average(x, prev, n) ==
    IF BLe(prev, x) THEN BAdd(BDivSmall(BSub(x, prev), n), prev)
    ELSE BSub(prev, BDivSmall(BSub(prev, x), n))

\* the loop body with the time average closed after PastBlocksMin gaps
DGW2ReadFourteen(c, st, BlockReading) ==
    [CountBlocks |-> st.CountBlocks + 1,
     PastDifficultyAverage |->
        IF st.CountBlocks + 1 > DGW2PastBlocksMin THEN st.PastDifficultyAverage
        ELSE IF st.CountBlocks + 1 = 1 THEN BigSetCompact(nBitsOf(c, BlockReading))
        ELSE DGW2Average(BigSetCompact(nBitsOf(c, BlockReading)),
                         st.PastDifficultyAverage, st.CountBlocks + 1),
     nBlockTimeCount |->
        IF st.LastBlockTime > 0 /\ st.nBlockTimeCount < DGW2PastBlocksMin
        THEN st.nBlockTimeCount + 1 ELSE st.nBlockTimeCount,
     nBlockTimeAverage |->
        IF st.LastBlockTime > 0 /\ st.nBlockTimeCount < DGW2PastBlocksMin
        THEN IF st.nBlockTimeCount + 1 = 1
             THEN st.LastBlockTime - GetBlockTime(c, BlockReading)
             ELSE TruncDiv((st.LastBlockTime - GetBlockTime(c, BlockReading))
                             - st.nBlockTimeAverage, st.nBlockTimeCount + 1)
                  + st.nBlockTimeAverage
        ELSE st.nBlockTimeAverage,
     nBlockTimeCount2 |->
        IF st.LastBlockTime > 0 THEN st.nBlockTimeCount2 + 1 ELSE st.nBlockTimeCount2,
     nBlockTimeSum2 |->
        IF st.LastBlockTime > 0
        THEN st.nBlockTimeSum2 + (st.LastBlockTime - GetBlockTime(c, BlockReading))
        ELSE st.nBlockTimeSum2,
     LastBlockTime |-> GetBlockTime(c, BlockReading)]

\* one pass of the loop body over the block BlockReading
DGW2Read(c, st, BlockReading) ==
    [CountBlocks |-> st.CountBlocks + 1,
     PastDifficultyAverage |->
        IF st.CountBlocks + 1 > DGW2PastBlocksMin THEN st.PastDifficultyAverage
        ELSE IF st.CountBlocks + 1 = 1 THEN BigSetCompact(nBitsOf(c, BlockReading))
        ELSE DGW2Average(BigSetCompact(nBitsOf(c, BlockReading)),
                         st.PastDifficultyAverage, st.CountBlocks + 1),
     nBlockTimeCount |->
        IF st.LastBlockTime > 0 /\ st.nBlockTimeCount <= DGW2PastBlocksMin
        THEN st.nBlockTimeCount + 1 ELSE st.nBlockTimeCount,
     nBlockTimeAverage |->
        IF st.LastBlockTime > 0 /\ st.nBlockTimeCount <= DGW2PastBlocksMin
        THEN IF st.nBlockTimeCount + 1 = 1
             THEN st.LastBlockTime - GetBlockTime(c, BlockReading)
             ELSE TruncDiv((st.LastBlockTime - GetBlockTime(c, BlockReading))
                             - st.nBlockTimeAverage, st.nBlockTimeCount + 1)
                  + st.nBlockTimeAverage
        ELSE st.nBlockTimeAverage,
     nBlockTimeCount2 |->
        IF st.LastBlockTime > 0 THEN st.nBlockTimeCount2 + 1 ELSE st.nBlockTimeCount2,
     nBlockTimeSum2 |->
        IF st.LastBlockTime > 0
        THEN st.nBlockTimeSum2 + (st.LastBlockTime - GetBlockTime(c, BlockReading))
        ELSE st.nBlockTimeSum2,
     LastBlockTime |-> GetBlockTime(c, BlockReading)]

RECURSIVE DGW2Walk(_, _, _, _, _)
DGW2Walk(c, pindexLast, lo, hi, st) ==
    IF lo > hi THEN st
    ELSE IF lo = hi THEN DGW2Read(c, st, pindexLast - (lo - 1))
    ELSE CHOOSE r \in
           {DGW2Walk(c, pindexLast, ((lo + hi) \div 2) + 1, hi, s2) :
               s2 \in {DGW2Walk(c, pindexLast, lo, (lo + hi) \div 2, st)}} : TRUE

\* nActualTimespan = CountBlocks * SmartAverage within [fTargetTimespan / 3,
\* fTargetTimespan * 3], cut to an integer; SmartAverage is
\* 0.7 * nBlockTimeAverage + 0.3 * nBlockTimeSum2 / nBlockTimeCount2, at least 1
DGW2ActualTimespan(st) ==
    LET num == 7 * st.nBlockTimeAverage * st.nBlockTimeCount2 + 3 * st.nBlockTimeSum2
        den == 10 * st.nBlockTimeCount2
        lo == st.CountBlocks * (MarsTargetSpacing \div 3)
        hi == st.CountBlocks * MarsTargetSpacing * 3
    IN IF num < den THEN lo
       ELSE IF num < (MarsTargetSpacing \div 3) * den THEN lo
       ELSE IF num > MarsTargetSpacing * 3 * den THEN hi
       ELSE (st.CountBlocks * num) \div den

DGW2Retarget(st) ==
    IF st.nBlockTimeCount # 0 /\ st.nBlockTimeCount2 # 0
    THEN ClampCompact(BDivSmall(BMulSmall(st.PastDifficultyAverage, DGW2ActualTimespan(st)),
                                st.CountBlocks * MarsTargetSpacing))
    ELSE ClampCompact(st.PastDifficultyAverage)

DarkGravityWave2(c, pindexLast) ==
    IF pindexLast = NULL \/ pindexLast = 0 \/ pindexLast < DGW2PastBlocksMin
    THEN nProofOfWorkLimit
    ELSE DGW2Retarget(DGW2Walk(c, pindexLast, 1,
                               WalkCount(c, pindexLast, DGW2PastBlocksMax), DGW2Start))

(***************************************************************************)
(* GravityAsert: the ASERT target from the block at the fixed height       *)
(* nAnchorHeight.                                                          *)
(***************************************************************************)
nAnchorHeight == 2996106

\* while (pindexAnchor && pindexAnchor->nHeight > nAnchorHeight)
\*     pindexAnchor = pindexAnchor->pprev;
\* heights fall by one per step, so the walk from p ends at the node of height
\* anchor when the chain reaches that far down, and at NULL when it does not
WalkToHeight(c, p, anchor) ==
    IF p = NULL THEN NULL
    ELSE IF p <= anchor THEN p
    ELSE IF LowestOf(c) <= anchor THEN anchor
    ELSE NULL

\* |((d * 65536) / nHalfLife)| as a big number
AsertExponentAbs(d) ==
    BDivSmall(BMulSmall(BFromInt(IF d >= 0 THEN d ELSE -d), 65536), nASERTHalfLife)

\* exponent / 65536 rounded toward zero
AsertShiftsTruncated(d) ==
    IF d >= 0 THEN BToInt(BShr(AsertExponentAbs(d), 16))
    ELSE -BToInt(BShr(AsertExponentAbs(d), 16))

\* exponent >> 16, the arithmetic shift of the signed exponent
AsertShifts(d) ==
    IF d >= 0 THEN BToInt(BShr(AsertExponentAbs(d), 16))
    ELSE -BToInt(BShr(BAdd(AsertExponentAbs(d), <<255, 255>>), 16))

\* (uint16_t)exponent
AsertFrac(d) ==
    IF d >= 0 THEN BToInt(BTrunc(AsertExponentAbs(d), 2))
    ELSE (65536 - BToInt(BTrunc(AsertExponentAbs(d), 2))) % 65536

\* a * m in unsigned 32-bit arithmetic
Mul32(a, m) == BTrunc(BMulSmall(a, m), 4)

\* a * m in unsigned 64-bit arithmetic
Mul64(a, m) == BTrunc(BMulSmall(a, m), 8)

Add64(a, b) == BTrunc(BAdd(a, b), 8)

\* 65536 + ((195766423245049 * frac + 971821376 * frac * frac
\*           + 5127 * frac * frac * frac + (1 << 47)) >> 48)
AsertFactor(frac) ==
    65536 + BToInt(BShr(
        Add64(Add64(Add64(Mul64(<<249, 208, 29, 108, 12, 178>>, frac),
                          Mul64(Mul64(BFromInt(971821376), frac), frac)),
                    Mul64(Mul64(Mul64(BFromInt(5127), frac), frac), frac)),
              <<0, 0, 0, 0, 0, 128>>),
        48))

\* bnNext after the integer shifts (CBigNum: no bits are lost on the left)
AsertShifted(bnNext, shifts) ==
    IF shifts < 0 THEN BShr(bnNext, -shifts)
    ELSE IF shifts > 0 THEN BShl(bnNext, shifts)
    ELSE bnNext

\* bnNext left as the shifts give it
AsertNotBounded(bnNext) == bnNext

\* the final bounds; bnPowLimit is SetCompact(ProofOfWorkLimit().GetCompact())
AsertBounded(bnNext) ==
    IF BGt(bnNext, BigSetCompact(nProofOfWorkLimit)) THEN BigSetCompact(nProofOfWorkLimit)
    ELSE IF bnNext = <<>> THEN <<1>>
    ELSE bnNext

\* the target computed with the schedule spacing * nHeightDiff, the tip's own
\* spacing left out
AsertFromAnchorByHeightDiff(c, pindexLast, pindexAnchor) ==
    LET nTimeDiff == GetBlockTime(c, pindexLast) - GetBlockTime(c, pindexAnchor)
        nHeightDiff == pindexLast - pindexAnchor
        d == nTimeDiff - MarsTargetSpacing * nHeightDiff
    IN GetCompact(AsertBounded(AsertShifted(
           BMulSmall(BigSetCompact(nBitsOf(c, pindexAnchor)), AsertFactor(AsertFrac(d))),
           AsertShifts(d) - 16)))

\* the target computed from the anchor block pindexAnchor
AsertFromAnchor(c, pindexLast, pindexAnchor) ==
    LET nTimeDiff == GetBlockTime(c, pindexLast) - GetBlockTime(c, pindexAnchor)
        nHeightDiff == pindexLast - pindexAnchor
        d == nTimeDiff - MarsTargetSpacing * (nHeightDiff + 1)
    IN GetCompact(AsertBounded(AsertShifted(
           BMulSmall(BigSetCompact(nBitsOf(c, pindexAnchor)), AsertFactor(AsertFrac(d))),
           AsertShifts(d) - 16)))

\* AsertAnchorOf without the early returns: the node the walk ends at, or the
\* tip
AsertAnchorNoFailSafe(c, pindexLast, anchor) ==
    IF pindexLast = NULL THEN NULL
    ELSE IF pindexLast < anchor THEN pindexLast
    ELSE IF WalkToHeight(c, pindexLast, anchor) = NULL THEN LowestOf(c)
    ELSE WalkToHeight(c, pindexLast, anchor)

\* the anchor block the computation reads; NULL when the function returns
\* early: no tip, a tip below the anchor height, or a walk that does not end at
\* the anchor height
AsertAnchorOf(c, pindexLast, anchor) ==
    IF pindexLast = NULL \/ pindexLast < anchor THEN NULL
    ELSE IF WalkToHeight(c, pindexLast, anchor) = NULL
            \/ WalkToHeight(c, pindexLast, anchor) # anchor
    THEN NULL
    ELSE WalkToHeight(c, pindexLast, anchor)

GravityAsertAnchoredAt(c, pindexLast, anchor) ==
    IF AsertAnchorOf(c, pindexLast, anchor) = NULL THEN nProofOfWorkLimit
    ELSE AsertFromAnchor(c, pindexLast, AsertAnchorOf(c, pindexLast, anchor))

GravityAsert(c, pindexLast) == GravityAsertAnchoredAt(c, pindexLast, nAnchorHeight)

(***************************************************************************)
(* CalculateASERT: the ASERT target in 256-bit arithmetic.  No call of it  *)
(* is compiled in; GetNextASERTWorkRequired, its one caller, passes        *)
(* Params().ASERTHalfLife() as nHalfLife.                                  *)
(***************************************************************************)
\* assert((powLimit >> 224) == 0)
PowLimitLeavesRoom == BShr(powLimit, 224) = <<>>

\* refTarget > 0 && refTarget <= powLimit
RefTargetInRange(refTarget) == refTarget # <<>> /\ BLe(refTarget, powLimit)

\* the three assertions of a build that compiles them in
CalculateASERTAsserts(refTarget, nHeightDiff) ==
    RefTargetInRange(refTarget) /\ PowLimitLeavesRoom /\ nHeightDiff >= 0

\* nextTarget after the integer shifts; a left shift that loses bits gives
\* powLimit
\* the shift taken in 256 bits with no look at the bits that fall off
CalcShiftedWrapping(nextTarget, shifts) ==
    IF shifts <= 0 THEN BShr(nextTarget, -shifts)
    ELSE BTrunc(BShl(nextTarget, shifts), 32)

CalcShifted(nextTarget, shifts) ==
    IF shifts <= 0 THEN BShr(nextTarget, -shifts)
    ELSE IF BShr(BTrunc(BShl(nextTarget, shifts), 32), shifts) # nextTarget THEN powLimit
    ELSE BTrunc(BShl(nextTarget, shifts), 32)

\* the final bounds
CalcBounded(nextTarget) ==
    IF nextTarget = <<>> THEN <<1>>
    ELSE IF BGt(nextTarget, powLimit) THEN powLimit
    ELSE nextTarget

\* the target of a call that reaches the arithmetic
CalcTarget(refTarget, nSpacing, nTimeDiff, nHeightDiff) ==
    CalcBounded(CalcShifted(
        BTrunc(BMulSmall(refTarget,
                         AsertFactor(AsertFrac(nTimeDiff - nSpacing * (nHeightDiff + 1)))), 32),
        AsertShifts(nTimeDiff - nSpacing * (nHeightDiff + 1)) - 16))

\* fAsserts: the build compiles assert() in; a failed assertion ends the
\* process and nothing is returned
CalculateASERT(refTarget, nSpacing, nTimeDiff, nHeightDiff, fAsserts) ==
    IF ~RefTargetInRange(refTarget)
    THEN [aborted |-> FALSE, target |-> powLimit]
    ELSE IF fAsserts /\ ~CalculateASERTAsserts(refTarget, nHeightDiff)
    THEN [aborted |-> TRUE, target |-> <<>>]
    ELSE [aborted |-> FALSE,
          target |-> CalcTarget(refTarget, nSpacing, nTimeDiff, nHeightDiff)]

(***************************************************************************)
(* CalculateASERT on a time difference beyond 32 bits, an int64_t held as  *)
(* its sign neg and its magnitude mag.                                     *)
(***************************************************************************)
\* nTimeDiff - nPowTargetSpacing * (nHeightDiff + 1), the product being the
\* smaller in magnitude
WideDrift(nTimeDiff, nSpacing, nHeightDiff) ==
    [neg |-> nTimeDiff.neg,
     mag |-> IF nTimeDiff.neg
             THEN BAdd(nTimeDiff.mag, BFromInt(nSpacing * (nHeightDiff + 1)))
             ELSE BSub(nTimeDiff.mag, BFromInt(nSpacing * (nHeightDiff + 1)))]

\* drift * 65536 is outside [-2^63, 2^63 - 1]
ExponentOverflows(drift) ==
    IF drift.neg THEN BGt(BMulSmall(drift.mag, 65536), BShl(<<1>>, 63))
    ELSE BGt(BMulSmall(drift.mag, 65536), BSub(BShl(<<1>>, 63), <<1>>))

\* the magnitude of (drift * 65536) / nHalfLife
WideExponentAbs(drift) == BDivSmall(BMulSmall(drift.mag, 65536), nASERTHalfLife)

\* exponent >> 16
WideShifts(drift) ==
    IF drift.neg THEN -BToInt(BShr(BAdd(WideExponentAbs(drift), <<255, 255>>), 16))
    ELSE BToInt(BShr(WideExponentAbs(drift), 16))

\* uint16_t(exponent & 0xFFFF)
WideFrac(drift) ==
    IF drift.neg THEN (65536 - BToInt(BTrunc(WideExponentAbs(drift), 2))) % 65536
    ELSE BToInt(BTrunc(WideExponentAbs(drift), 2))

\* the shifts of a 256-bit value, which leave nothing from 256 bits on
WideShifted(nextTarget, shifts) ==
    IF shifts <= -256 THEN <<>>
    ELSE IF shifts >= 256 THEN (IF nextTarget = <<>> THEN <<>> ELSE powLimit)
    ELSE CalcShifted(nextTarget, shifts)

\* what a build can make of the signed overflow in the exponent, which is
\* undefined: a trap, or a target within the final bounds
OverflowOutcomes ==
    {[multiplied |-> TRUE, overflow |-> TRUE, aborted |-> TRUE, target |-> <<>>],
     [multiplied |-> TRUE, overflow |-> TRUE, aborted |-> FALSE, target |-> <<1>>],
     [multiplied |-> TRUE, overflow |-> TRUE, aborted |-> FALSE, target |-> powLimit]}

\* the outcomes of CalculateASERT; multiplied: the call reached the
\* multiplication by 65536
CalculateASERTWide(refTarget, nSpacing, nTimeDiff, nHeightDiff, fAsserts) ==
    IF ~RefTargetInRange(refTarget)
    THEN {[multiplied |-> FALSE, overflow |-> FALSE, aborted |-> FALSE,
           target |-> powLimit]}
    ELSE IF fAsserts /\ ~CalculateASERTAsserts(refTarget, nHeightDiff)
    THEN {[multiplied |-> FALSE, overflow |-> FALSE, aborted |-> TRUE, target |-> <<>>]}
    ELSE IF ExponentOverflows(WideDrift(nTimeDiff, nSpacing, nHeightDiff))
    THEN OverflowOutcomes
    ELSE {[multiplied |-> TRUE, overflow |-> FALSE, aborted |-> FALSE,
           target |-> CalcBounded(WideShifted(
               BTrunc(BMulSmall(refTarget,
                                AsertFactor(WideFrac(WideDrift(nTimeDiff, nSpacing,
                                                               nHeightDiff)))), 32),
               WideShifts(WideDrift(nTimeDiff, nSpacing, nHeightDiff)) - 16))]}

(***************************************************************************)
(* GetNextASERTWorkRequired: the differences from the anchor block to      *)
(* pindexPrev, handed to CalculateASERT with Params().TargetSpacing().     *)
(***************************************************************************)
\* assert(pindexPrev->nHeight >= pindexAnchorBlock->nHeight) and
\* assert(pindexPrev->pprev != nullptr)
GetNextASERTWorkRequiredAsserts(c, pindexPrev, pindexAnchorBlock) ==
    pindexPrev >= pindexAnchorBlock /\ pprev(c, pindexPrev) # NULL

\* the time stamp of the anchor block itself
AnchorTimeOwn(c, pindexAnchorBlock) == GetBlockTime(c, pindexAnchorBlock)

\* anchorTime: the time stamp of the parent of the anchor block, of the anchor
\* block itself when it has no parent
AnchorTime(c, pindexAnchorBlock) ==
    IF pprev(c, pindexAnchorBlock) # NULL
    THEN GetBlockTime(c, pprev(c, pindexAnchorBlock))
    ELSE GetBlockTime(c, pindexAnchorBlock)

\* stopped: the function whose assertion failed, "none" when the call returns
GetNextASERTWorkRequired(c, pindexPrev, pindexAnchorBlock, fAsserts) ==
    IF fAsserts /\ ~GetNextASERTWorkRequiredAsserts(c, pindexPrev, pindexAnchorBlock)
    THEN [stopped |-> "GetNextASERTWorkRequired", nTimeDiff |-> 0, nHeightDiff |-> 0,
          nBits |-> 0]
    ELSE LET nTimeDiff == GetBlockTime(c, pindexPrev) - AnchorTime(c, pindexAnchorBlock)
             nHeightDiff == pindexPrev - pindexAnchorBlock
             nextTarget == CalculateASERT(SetCompact(nBitsOf(c, pindexAnchorBlock)),
                                          nPowTargetSpacing, nTimeDiff, nHeightDiff,
                                          fAsserts)
         IN [stopped |-> IF nextTarget.aborted THEN "CalculateASERT" ELSE "none",
             nTimeDiff |-> nTimeDiff, nHeightDiff |-> nHeightDiff,
             nBits |-> IF nextTarget.aborted THEN 0 ELSE GetCompact(nextTarget.target)]

(***************************************************************************)
(* GetNextWorkRequired: the algorithm is chosen by the height of the next  *)
(* block.                                                                  *)
(***************************************************************************)
nDGW2Height == 120000

nDGW3Height == 126000

nAsertHeight == 4000000

nAsertLogHeight == 2996105

\* the bands with GravityAsert from nASERTAnchor of the main network on, on
\* every network and whatever RequireStandard() says
DiffModeByHeightOnly(fRequireStandard, nHeight) ==
    IF nHeight >= nASERTAnchor("MAIN") THEN 6
    ELSE IF nHeight >= nDGW3Height THEN 5
    ELSE IF nHeight >= nDGW2Height THEN 4
    ELSE 1

\* DiffMode: 1 is V1, 4 DarkGravityWave2, 5 DarkGravityWave3, 6 GravityAsert
DiffMode(fRequireStandard, nHeight) ==
    IF ~fRequireStandard THEN 1
    ELSE IF nHeight >= nAsertHeight THEN 6
    ELSE IF nHeight >= nDGW3Height THEN 5
    ELSE IF nHeight >= nDGW2Height THEN 4
    ELSE 1

RunDiffMode(mode, net, c, pindexLast, pblockTime) ==
    IF mode = 1 THEN GetNextWorkRequired_V1(net, c, pindexLast, pblockTime)
    ELSE IF mode = 4 THEN DarkGravityWave2(c, pindexLast)
    ELSE IF mode = 5 THEN DarkGravityWave3(c, pindexLast)
    ELSE IF mode = 6 THEN GravityAsert(c, pindexLast)
    ELSE DarkGravityWave3(c, pindexLast)

GetNextWorkRequired(net, fRequireStandard, c, pindexLast, pblockTime) ==
    RunDiffMode(DiffMode(fRequireStandard, pindexLast + 1), net, c, pindexLast, pblockTime)

\* the hypothetical ASERT target, computed for the log only
LogsHypotheticalAsert(pindexLast) == pindexLast + 1 >= nAsertLogHeight

(***************************************************************************)
(* CheckProofOfWork and GetBlockProof.                                     *)
(***************************************************************************)
\* ~bnTarget on 256 bits
Not256(a) == BNorm([i \in 1 .. 32 |-> 255 - Dig(a, i)])

\* the range of CheckProofOfWork: a positive target within 256 bits and the limit
ValidTarget(nBits) ==
    /\ ~CompactNegative(nBits)
    /\ SetCompact(nBits) # <<>>
    /\ ~CompactOverflow(nBits)
    /\ BLe(SetCompact(nBits), powLimit)

\* CheckProofOfWork without the SkipProofOfWorkCheck() return
CheckProofOfWorkNoSkip(hash, nBits, fSkip) ==
    ValidTarget(nBits) /\ BLe(hash, SetCompact(nBits))

CheckProofOfWork(hash, nBits, fSkip) ==
    IF fSkip THEN TRUE
    ELSE IF \/ CompactNegative(nBits)
            \/ SetCompact(nBits) = <<>>
            \/ CompactOverflow(nBits)
            \/ BGt(SetCompact(nBits), powLimit)
    THEN FALSE
    ELSE ~BGt(hash, SetCompact(nBits))

\* (~bnTarget / (bnTarget + 1)) + 1 on 256 bits
WorkOfTarget(bnTarget) ==
    BTrunc(BAdd(BDiv(Not256(bnTarget), BTrunc(BAdd(bnTarget, <<1>>), 32)), <<1>>), 32)

\* GetBlockProof with 0 for every target CheckProofOfWork rejects
GetBlockProofLimitChecked(nBits) ==
    IF ValidTarget(nBits) THEN WorkOfTarget(SetCompact(nBits)) ELSE <<>>

\* GetBlockProof less its two lowest bits
GetBlockProofCoarse(nBits) ==
    IF CompactNegative(nBits) \/ CompactOverflow(nBits) \/ SetCompact(nBits) = <<>>
    THEN <<>>
    ELSE BShr(WorkOfTarget(SetCompact(nBits)), 2)

GetBlockProof(nBits) ==
    IF CompactNegative(nBits) \/ CompactOverflow(nBits) \/ SetCompact(nBits) = <<>>
    THEN <<>>
    ELSE WorkOfTarget(SetCompact(nBits))

(***************************************************************************)
(* The state: a network's parameters, the header chain, and the last call  *)
(* of each entry point with what it returned.                              *)
(***************************************************************************)
VARIABLES
    net,                    \* the network whose parameters Params() returns
    fRequireStandard,       \* Params().RequireStandard()
    fSkipProofOfWorkCheck,  \* Params().SkipProofOfWorkCheck()
    chain,                  \* the block index, oldest block first
    nConnected,             \* blocks connected since the start
    lastWork,               \* the last GetNextWorkRequired call
    prevWork,               \* the GetNextWorkRequired call before it
    lastAsert,              \* the last call of an ASERT function
    lastPow,                \* the last call of a function that reads no chain
    prevProof               \* the call before it, when both are GetBlockProof calls

vars == <<net, fRequireStandard, fSkipProofOfWorkCheck, chain, nConnected,
          lastWork, prevWork, lastAsert, lastPow, prevProof>>

MaxConnect == 2

\* the largest time stamp the model's integers leave room for
MaxTime == 2147000000

StartHeights ==
    {0, 2015, 4030, 71377, 119998, 125998, 2996103, 2999997, 3999998}

\* nBits and spacing of the blocks above genesis of a start chain:
\* the limit, a middling target, and the targets 1 and 3
StartProfiles ==
    {<<504365055, 150>>, <<504365040, 123>>, <<470810608, 30>>,
     <<16842752, 123>>, <<16973824, 30>>}

StartChain(n, H, prof) ==
    IF H = 0 THEN <<Run(0, 0, GenesisBits(n), GenesisTime(n), 0)>>
    ELSE <<Run(0, 0, GenesisBits(n), GenesisTime(n), 0),
           Run(1, H, prof[1], GenesisTime(n) + prof[2], prof[2])>>

StartChains(n) ==
    {StartChain(n, hp[1], hp[2]) :
        hp \in {q \in StartHeights \X StartProfiles :
                   q[2][2] * (q[1] + 8) < MaxTime - GenesisTime(n)}}

\* chains for the legacy retarget, the next block on a multiple of 2016, of
\* 591 = 88775 / 150, of 721 = 88775 / 123 (70658 is the first from nForkTwo
\* on) or of 722: blocks 300 seconds
\* apart (twice the target timespan over 2016 blocks) and 700 seconds apart
\* (more than four times), and tips between the fork heights and above them
V1Chains(n) ==
    {StartChain(n, q[1], q[2]) :
        q \in ({4031} \X {<<470810608, 300>>, <<504365040, 300>>, <<470810608, 700>>,
                         <<504365040, 700>>})
              \cup ({16127, 14774, 70657, 71477} \X {<<470810608, 30>>, <<504365040, 123>>})}

\* a chain whose tip carries a time stamp before that of the block 2016 below it
EarlyTipChain(n) ==
    Connect(StartChain(n, 4030, <<470810608, 150>>), 470810608, GenesisTime(n) + 1)

\* an index that does not reach down to genesis, all of its blocks at the limit
PartialChain(n) == <<Run(4033, 4040, nProofOfWorkLimit, GenesisTime(n) + 604950, 150)>>

\* a chain for DarkGravityWave2 with one long gap, the fifteenth counted down
\* from the tip 125998, between blocks otherwise 123 seconds apart
LongGapChain(n) ==
    <<Run(0, 0, GenesisBits(n), GenesisTime(n), 0),
      Run(1, 125983, 470810608, GenesisTime(n) + 123, 123),
      Run(125984, 125998, 470810608, GenesisTime(n) + 123 * 125983 + 1230, 123)>>

\* seconds from the tip to the candidate header
CandidateGaps == {60, 400}

NoWork == [pindexLast |-> NULL, pblockTime |-> 0, nBits |-> 0, DiffMode |-> 0]

\* fCalled: GravityAsert has been called and the record is its call
NoAsert ==
    [op |-> "none", pindexLast |-> NULL, nBits |-> 0, pindexAnchor |-> NULL,
     fCalled |-> FALSE]

NoPow == [op |-> "none"]

WorkCall(pblockTime) ==
    [pindexLast |-> TipOf(chain), pblockTime |-> pblockTime,
     nBits |-> GetNextWorkRequired(net, fRequireStandard, chain, TipOf(chain), pblockTime),
     DiffMode |-> DiffMode(fRequireStandard, TipOf(chain) + 1)]

AsertCall(c, pindexLast) ==
    [op |-> "GravityAsert", pindexLast |-> pindexLast,
     nBits |-> GravityAsert(c, pindexLast),
     pindexAnchor |-> AsertAnchorOf(c, pindexLast, nAnchorHeight), fCalled |-> TRUE]

\* GetNextWorkRequired calls GravityAsert for the log line and in DiffMode 6
WorkAsert ==
    IF LogsHypotheticalAsert(TipOf(chain))
       \/ DiffMode(fRequireStandard, TipOf(chain) + 1) = 6
    THEN AsertCall(chain, TipOf(chain))
    ELSE lastAsert

Init ==
    /\ net \in Networks
    /\ fRequireStandard \in BOOLEAN
    /\ fSkipProofOfWorkCheck = FALSE
    /\ chain \in StartChains(net) \cup V1Chains(net)
                   \cup {EarlyTipChain(net), PartialChain(net), LongGapChain(net)}
    /\ nConnected = 0
    /\ lastWork = NoWork
    /\ prevWork = NoWork
    /\ lastAsert = NoAsert
    /\ lastPow = NoPow
    /\ prevProof = NoPow

\* a header at the candidate time is given the required nBits and connected
ConnectBlock ==
    /\ nConnected < MaxConnect
    /\ \E gap \in CandidateGaps :
          /\ lastWork' = WorkCall(GetBlockTime(chain, TipOf(chain)) + gap)
          /\ chain' = IF lastWork'.nBits = AssertFailed THEN chain
                       ELSE Connect(chain, lastWork'.nBits, lastWork'.pblockTime)
    /\ prevWork' = lastWork
    /\ lastAsert' = WorkAsert
    /\ nConnected' = nConnected + 1
    /\ UNCHANGED <<net, fRequireStandard, fSkipProofOfWorkCheck, lastPow, prevProof>>

Next == ConnectBlock

Spec == Init /\ [][Next]_vars

(***************************************************************************)
(* Block templates: GetNextWorkRequired is asked for the required work of  *)
(* a candidate header on top of the tip, and the chain stays as it is.     *)
(***************************************************************************)
GetWork ==
    /\ \E gap \in CandidateGaps :
          lastWork' = WorkCall(GetBlockTime(chain, TipOf(chain)) + gap)
    /\ prevWork' = lastWork
    /\ lastAsert' = WorkAsert
    /\ UNCHANGED <<net, fRequireStandard, fSkipProofOfWorkCheck, chain, nConnected,
                   lastPow, prevProof>>

NextWork == GetWork

SpecWork == Init /\ [][NextWork]_vars

(***************************************************************************)
(* DarkGravityWave3 called on its own, on short and on long chains, and    *)
(* the header connected with the bits it returns.                          *)
(***************************************************************************)
\* tips below, at and above PastBlocksMin
WaveHeights == {0, 1, 23, 24, 25, 30}

\* the start profiles and blocks 700 seconds apart, more than three times 123
WaveProfiles == StartProfiles \cup {<<470810608, 700>>, <<504365040, 700>>}

WaveChains(n) == {StartChain(n, q[1], q[2]) : q \in WaveHeights \X WaveProfiles}

InitWave ==
    /\ net \in Networks
    /\ fRequireStandard = TRUE
    /\ fSkipProofOfWorkCheck = FALSE
    /\ chain \in WaveChains(net)
    /\ nConnected = 0
    /\ lastWork = NoWork
    /\ prevWork = NoWork
    /\ lastAsert = NoAsert
    /\ lastPow = NoPow
    /\ prevProof = NoPow

CallDarkGravityWave3 ==
    /\ nConnected < MaxConnect
    /\ \E gap \in CandidateGaps :
          /\ lastWork' = [pindexLast |-> TipOf(chain),
                          pblockTime |-> GetBlockTime(chain, TipOf(chain)) + gap,
                          nBits |-> DarkGravityWave3(chain, TipOf(chain)),
                          DiffMode |-> 5]
          /\ chain' = Connect(chain, lastWork'.nBits, lastWork'.pblockTime)
    /\ prevWork' = lastWork
    /\ nConnected' = nConnected + 1
    /\ UNCHANGED <<net, fRequireStandard, fSkipProofOfWorkCheck, lastAsert, lastPow,
                   prevProof>>

NextWave == CallDarkGravityWave3

SpecWave == InitWave /\ [][NextWave]_vars

(***************************************************************************)
(* GravityAsert on its own, over block indexes that reach down to genesis  *)
(* and over indexes whose oldest node lies above the anchor height.        *)
(***************************************************************************)
AsertTipHeights == {2996000, 2996105, 2996106, 2996107, 2996200, 3004000, 4000001}

AsertLowest == {0, 2996106, 2996107}

\* the start profiles, and blocks of target 1 spaced 150 seconds apart
AsertProfiles == StartProfiles \cup {<<16842752, 150>>}

AsertIndex(n, lo, H, prof) ==
    IF lo = 0 THEN StartChain(n, H, prof)
    ELSE <<Run(lo, H, prof[1], GenesisTime(n) + prof[2] * lo, prof[2])>>

\* indexes whose tip comes late: 8 half-lives and one or two spacings after
\* its parent, on blocks spaced 123 seconds apart
AsertLateTips == {2996107, 2996206}

AsertLateGaps == {8 * nASERTHalfLife + MarsTargetSpacing,
                  8 * nASERTHalfLife + 2 * MarsTargetSpacing}

AsertLateIndex(n, lo, H, prof, gap) ==
    Connect(AsertIndex(n, lo, H - 1, prof), prof[1],
            GetBlockTime(AsertIndex(n, lo, H - 1, prof), H - 1) + gap)

AsertIndexes(n) ==
    {AsertIndex(n, q[1], q[2], q[3]) :
        q \in {r \in AsertLowest \X AsertTipHeights \X AsertProfiles :
                  /\ r[1] <= r[2]
                  /\ r[3][2] * (r[2] + 8) < MaxTime - GenesisTime(n)}}
    \cup
    {AsertLateIndex(n, q[1], q[2], q[3], q[4]) :
        q \in {r \in AsertLowest \X AsertLateTips \X AsertProfiles \X AsertLateGaps :
                  /\ r[1] < r[2]
                  /\ r[3][2] = MarsTargetSpacing}}

InitAsert ==
    /\ net \in Networks
    /\ fRequireStandard = TRUE
    /\ fSkipProofOfWorkCheck = FALSE
    /\ chain \in AsertIndexes(net)
    /\ nConnected = 0
    /\ lastWork = NoWork
    /\ prevWork = NoWork
    /\ lastAsert = NoAsert
    /\ lastPow = NoPow
    /\ prevProof = NoPow

CallGravityAsert ==
    /\ lastAsert' = AsertCall(chain, TipOf(chain))
    /\ UNCHANGED <<net, fRequireStandard, fSkipProofOfWorkCheck, chain, nConnected,
                   lastWork, prevWork, lastPow, prevProof>>

\* CalculateASERT on the arguments GetNextASERTWorkRequired and GravityAsert
\* read from the index: the anchor block's target, the time from the anchor
\* to the tip and the height between them.  nSpacing is the
\* Params().TargetSpacing() GetNextASERTWorkRequired passes or the 123 seconds
\* of GravityAsert; a reference target above powLimit stands for an anchor
\* block that is not valid.
CalcSpacings == {nPowTargetSpacing, MarsTargetSpacing}

CalcRefTargets(c, pindexAnchor) ==
    {SetCompact(nBitsOf(c, pindexAnchor)), BAdd(powLimit, <<1>>)}

CalcCall(refTarget, nSpacing, nTimeDiff, nHeightDiff, fAsserts) ==
    [op |-> "CalculateASERT", pindexLast |-> NULL, nBits |-> 0, pindexAnchor |-> NULL,
     fCalled |-> FALSE,
     refTarget |-> refTarget, nSpacing |-> nSpacing, nTimeDiff |-> nTimeDiff,
     nHeightDiff |-> nHeightDiff, fAsserts |-> fAsserts,
     result |-> CalculateASERT(refTarget, nSpacing, nTimeDiff, nHeightDiff, fAsserts)]

CallCalculateASERT ==
    /\ AsertAnchorOf(chain, TipOf(chain), nAnchorHeight) # NULL
    /\ \E refTarget \in CalcRefTargets(chain, nAnchorHeight),
          nSpacing \in CalcSpacings, fAsserts \in BOOLEAN :
          lastAsert' = CalcCall(refTarget, nSpacing,
                                GetBlockTime(chain, TipOf(chain))
                                   - GetBlockTime(chain, nAnchorHeight),
                                TipOf(chain) - nAnchorHeight, fAsserts)
    /\ UNCHANGED <<net, fRequireStandard, fSkipProofOfWorkCheck, chain, nConnected,
                   lastWork, prevWork, lastPow, prevProof>>

\* the blocks GetNextASERTWorkRequired is called for: the tip, and the block
\* below the anchor block where the index holds it
AsertPrevs(c) ==
    {TipOf(c)} \cup (IF LowestOf(c) < nAnchorHeight THEN {nAnchorHeight - 1} ELSE {})

NextWorkCall(c, pindexPrev, pindexAnchorBlock, fAsserts) ==
    [op |-> "GetNextASERTWorkRequired", pindexLast |-> pindexPrev, nBits |-> 0,
     pindexAnchor |-> pindexAnchorBlock, fCalled |-> FALSE, fAsserts |-> fAsserts,
     result |-> GetNextASERTWorkRequired(c, pindexPrev, pindexAnchorBlock, fAsserts)]

\* GetNextASERTWorkRequired with the block at nAnchorHeight for its anchor
CallGetNextASERTWorkRequired ==
    /\ LowestOf(chain) <= nAnchorHeight
    /\ nAnchorHeight <= TipOf(chain)
    /\ \E pindexPrev \in AsertPrevs(chain), fAsserts \in BOOLEAN :
          lastAsert' = NextWorkCall(chain, pindexPrev, nAnchorHeight, fAsserts)
    /\ UNCHANGED <<net, fRequireStandard, fSkipProofOfWorkCheck, chain, nConnected,
                   lastWork, prevWork, lastPow, prevProof>>

\* time differences that are 2^40 seconds and 2^47 seconds ahead of the
\* schedule nSpacing * (nHeightDiff + 1), and 2^40 and 2^47 + nSpacing - 1
\* seconds behind it
CalcWideTimeDiffs(nSpacing, nHeightDiff) ==
    {[neg |-> FALSE, mag |-> BAdd(a, BFromInt(nSpacing * (nHeightDiff + 1)))] :
        a \in {BShl(<<1>>, 40), BShl(<<1>>, 47)}}
    \cup
    {[neg |-> TRUE, mag |-> BSub(a, BFromInt(nSpacing * (nHeightDiff + 1)))] :
        a \in {BShl(<<1>>, 40), BAdd(BShl(<<1>>, 47), BFromInt(nSpacing - 1))}}

\* CalculateASERT on the anchor block's target and such a time difference
CallCalculateASERTWide ==
    /\ AsertAnchorOf(chain, TipOf(chain), nAnchorHeight) # NULL
    /\ \E nTimeDiff \in CalcWideTimeDiffs(nPowTargetSpacing, TipOf(chain) - nAnchorHeight),
          fAsserts \in BOOLEAN :
          \E result \in CalculateASERTWide(SetCompact(nBitsOf(chain, nAnchorHeight)),
                                           nPowTargetSpacing, nTimeDiff,
                                           TipOf(chain) - nAnchorHeight, fAsserts) :
             lastAsert' =
                [op |-> "CalculateASERTWide", pindexLast |-> NULL, nBits |-> 0,
                 pindexAnchor |-> NULL, fCalled |-> FALSE,
                 refTarget |-> SetCompact(nBitsOf(chain, nAnchorHeight)),
                 nSpacing |-> nPowTargetSpacing, nTimeDiff |-> nTimeDiff,
                 nHeightDiff |-> TipOf(chain) - nAnchorHeight, fAsserts |-> fAsserts,
                 result |-> result]
    /\ UNCHANGED <<net, fRequireStandard, fSkipProofOfWorkCheck, chain, nConnected,
                   lastWork, prevWork, lastPow, prevProof>>

NextAsert ==
    \/ CallGravityAsert
    \/ CallCalculateASERT
    \/ CallGetNextASERTWorkRequired
    \/ CallCalculateASERTWide

SpecAsert == InitAsert /\ [][NextAsert]_vars

(***************************************************************************)
(* The factor of the fractional part of the exponent, for every value of   *)
(* the uint16_t frac in turn.                                              *)
(***************************************************************************)
nFracMax == 65535

InitFactor ==
    /\ net = "MAIN"
    /\ fRequireStandard = TRUE
    /\ fSkipProofOfWorkCheck = FALSE
    /\ chain = StartChain(net, 0, <<0, 0>>)
    /\ nConnected = 0
    /\ lastWork = NoWork
    /\ prevWork = NoWork
    /\ lastAsert = NoAsert
    /\ lastPow = NoPow
    /\ prevProof = NoPow

\* below: the factor of frac - 1, computed by the call before
FactorCall(frac, below) ==
    [op |-> "AsertFactor", pindexLast |-> NULL, nBits |-> 0, pindexAnchor |-> NULL,
     fCalled |-> FALSE, frac |-> frac, factor |-> AsertFactor(frac), below |-> below]

CallAsertFactor ==
    /\ IF lastAsert.op = "AsertFactor"
       THEN /\ lastAsert.frac < nFracMax
            /\ lastAsert' = FactorCall(lastAsert.frac + 1, lastAsert.factor)
       ELSE lastAsert' = FactorCall(0, 65536)
    /\ UNCHANGED <<net, fRequireStandard, fSkipProofOfWorkCheck, chain, nConnected,
                   lastWork, prevWork, lastPow, prevProof>>

NextFactor == CallAsertFactor

SpecFactor == InitFactor /\ [][NextFactor]_vars

(***************************************************************************)
(* The proof-of-work functions on their own: CheckProofOfWork,             *)
(* GetBlockProof, and the compact round trip GetCompact then SetCompact.   *)
(***************************************************************************)
\* compact words: zero (three forms), the targets 1 and 3, a negative word, a
\* middling target, genesis, the two largest mantissas under the limit, the
\* limit, a denormal form under the limit, four words above the limit, and
\* three overflowing words
SampleBits ==
    {0, 16790614, 25165824, 16842752, 16973824, 76690518, 470810608,
     504365040, 504365054, 504365055, 520097791,
     504365056, 520159231, 545259519, 570425345,
     553713664, 570490624, 587202561}

Ones256 == [i \in 1 .. 32 |-> 255]

\* hashes around the target of nBits
SampleHashes(nBits) ==
    {<<>>, SetCompact(nBits), BTrunc(BAdd(SetCompact(nBits), <<1>>), 32), Ones256}

\* 256-bit targets: 0, 1, 0x80, 0xff, 0x7fffff, 0x800000, 0x800001,
\* 0x12345678, the genesis target, the limit and the limit less one
SampleTargets ==
    {<<>>, <<1>>, <<128>>, <<255>>, <<255, 255, 127>>, <<0, 0, 128>>,
     <<1, 0, 128>>, <<120, 86, 52, 18>>, SetCompact(504365040), powLimit,
     BSub(powLimit, <<1>>)}

\* the proofs of the sample words, each computed once
BlockProofs == [nBits \in SampleBits |-> GetBlockProof(nBits)]

InitPow ==
    /\ net \in Networks
    /\ fRequireStandard = TRUE
    /\ fSkipProofOfWorkCheck \in BOOLEAN
    /\ chain = StartChain(net, 0, <<0, 0>>)
    /\ nConnected = 0
    /\ lastWork = NoWork
    /\ prevWork = NoWork
    /\ lastAsert = NoAsert
    /\ lastPow = NoPow
    /\ prevProof = NoPow

CallCheckProofOfWork ==
    /\ \E nBits \in SampleBits : \E hash \in SampleHashes(nBits) :
          lastPow' = [op |-> "CheckProofOfWork", hash |-> hash, nBits |-> nBits,
                      result |-> CheckProofOfWork(hash, nBits, fSkipProofOfWorkCheck)]
    /\ prevProof' = NoPow
    /\ UNCHANGED <<net, fRequireStandard, fSkipProofOfWorkCheck, chain, nConnected,
                   lastWork, prevWork, lastAsert>>

CallGetBlockProof ==
    /\ \E nBits \in SampleBits :
          lastPow' = [op |-> "GetBlockProof", nBits |-> nBits,
                      proof |-> BlockProofs[nBits]]
    /\ prevProof' = IF lastPow.op = "GetBlockProof" THEN lastPow ELSE NoPow
    /\ UNCHANGED <<net, fRequireStandard, fSkipProofOfWorkCheck, chain, nConnected,
                   lastWork, prevWork, lastAsert>>

\* a target is encoded and the word decoded again, as when a difficulty
\* algorithm returns GetCompact() and the next one reads the block's nBits
CallCompact ==
    /\ \E target \in SampleTargets :
          lastPow' = [op |-> "Compact", target |-> target, nBits |-> GetCompact(target),
                      decoded |-> SetCompact(GetCompact(target))]
    /\ prevProof' = NoPow
    /\ UNCHANGED <<net, fRequireStandard, fSkipProofOfWorkCheck, chain, nConnected,
                   lastWork, prevWork, lastAsert>>

\* message starts: the five networks', four zero bytes, and bytes that differ
\* from a network's in one place
SampleMessages ==
    {pchMessageStart(n) : n \in Networks}
    \cup {<<0, 0, 0, 0>>, <<251, 192, 182, 220>>, <<251, 175, 222, 237>>,
          <<250, 191, 222, 237>>, <<10, 3, 207, 0>>}

CallGetNetworkForMagic ==
    /\ \E message \in SampleMessages :
          lastPow' = [op |-> "GetNetworkForMagic", message |-> message,
                      result |-> GetNetworkForMagic(message)]
    /\ prevProof' = NoPow
    /\ UNCHANGED <<net, fRequireStandard, fSkipProofOfWorkCheck, chain, nConnected,
                   lastWork, prevWork, lastAsert>>

NextPow ==
    CallCheckProofOfWork \/ CallGetBlockProof \/ CallCompact \/ CallGetNetworkForMagic

SpecPow == InitPow /\ [][NextPow]_vars

(***************************************************************************)
(* Properties of GetNextWorkRequired.                                      *)
(***************************************************************************)
\* the last GetNextWorkRequired call was made (on the tip pindexLast)
WorkCalled == lastWork.pindexLast # NULL

\* the result of the algorithm of DiffMode mode for the last call
AlgorithmResult(mode) ==
    IF mode = 1
    THEN GetNextWorkRequired_V1(net, chain, lastWork.pindexLast, lastWork.pblockTime)
    ELSE IF mode = 4 THEN DarkGravityWave2(chain, lastWork.pindexLast)
    ELSE IF mode = 5 THEN DarkGravityWave3(chain, lastWork.pindexLast)
    ELSE GravityAsert(chain, lastWork.pindexLast)

\* C1, as the code has it: with h the height after the tip, every call returns
\* the result of exactly one algorithm: V1 at every height when
\* RequireStandard() is false; otherwise V1 for h < 120000, DarkGravityWave2
\* for 120000 <= h < 126000, DarkGravityWave3 for 126000 <= h < 4000000 and
\* GravityAsert for h >= 4000000.
C1_AlgorithmByBand ==
    WorkCalled =>
        lastWork.nBits =
            AlgorithmResult(
                IF ~fRequireStandard \/ lastWork.pindexLast + 1 < 120000 THEN 1
                ELSE IF lastWork.pindexLast + 1 < 126000 THEN 4
                ELSE IF lastWork.pindexLast + 1 < 4000000 THEN 5
                ELSE 6)

\* C1's case: a call for a height in 2999999 .. 3999999 under RequireStandard()
\* whose result is DarkGravityWave3's and not GravityAsert's
C1_Witness ==
    /\ WorkCalled
    /\ fRequireStandard
    /\ lastWork.pindexLast + 1 >= 2999999
    /\ lastWork.pindexLast + 1 < 4000000
    /\ lastWork.nBits = DarkGravityWave3(chain, lastWork.pindexLast)
    /\ lastWork.nBits # GravityAsert(chain, lastWork.pindexLast)

\* C1 as stated: the algorithm is chosen by height alone, with ASERT for
\* h >= 2999999.
C1_AsStated ==
    WorkCalled =>
        lastWork.nBits =
            AlgorithmResult(
                IF lastWork.pindexLast + 1 < 120000 THEN 1
                ELSE IF lastWork.pindexLast + 1 < 126000 THEN 4
                ELSE IF lastWork.pindexLast + 1 < 2999999 THEN 5
                ELSE 6)

\* the blocks of the chain all carry a target in 1 .. powLimit
ChainTargetsInRange ==
    \A i \in 1 .. Len(chain) :
        /\ SetCompact(chain[i].nBits) # <<>>
        /\ BLe(SetCompact(chain[i].nBits), powLimit)

\* C2 as stated: every value n GetNextWorkRequired returns has
\* 0 < decode(n) <= powLimit, and every block of a chain grown by connecting
\* blocks with the returned values keeps its target in that range.
C2_ClampInvariant ==
    /\ WorkCalled =>
          /\ SetCompact(lastWork.nBits) # <<>>
          /\ BLe(SetCompact(lastWork.nBits), powLimit)
    /\ ChainTargetsInRange

\* C3 as stated: on a network with fPowNoRetargeting (regtest) every call
\* returns the tip's nBits unchanged.
C3_NoRetargeting ==
    (WorkCalled /\ fPowNoRetargeting(net)) =>
        lastWork.nBits = nBitsOf(chain, lastWork.pindexLast)

\* the last two calls were made on the same tip
SameTipTwice == WorkCalled /\ prevWork.pindexLast = lastWork.pindexLast

\* the last call took the branch of V1 that reads the candidate's time
ReadsCandidateTime ==
    /\ lastWork.DiffMode = 1
    /\ fPowAllowMinDifficultyBlocks(net)
    /\ (lastWork.pindexLast + 1) % V1Interval(lastWork.pindexLast + 1) # 0

\* C4, as the code has it: two calls on the same tip with the same parameters
\* return the same value whatever the candidate headers, except in V1 off a
\* retarget boundary on a network with fPowAllowMinDifficultyBlocks.
C4_SameTipSameWork ==
    (SameTipTwice /\ ~ReadsCandidateTime) => lastWork.nBits = prevWork.nBits

\* C4's case: two calls on one tip with candidate times that differ, in V1 on a
\* network without fPowAllowMinDifficultyBlocks
C4_Witness ==
    /\ SameTipTwice
    /\ prevWork.pblockTime # lastWork.pblockTime
    /\ lastWork.DiffMode = 1
    /\ ~fPowAllowMinDifficultyBlocks(net)
    /\ lastWork.nBits # nProofOfWorkLimit

\* C4 as stated: two calls on the same tip return the same value on every
\* network.
C4_AsStated == SameTipTwice => lastWork.nBits = prevWork.nBits

(***************************************************************************)
(* Properties of CheckProofOfWork, GetBlockProof and the compact form.     *)
(***************************************************************************)
\* C5, as the code has it: while SkipProofOfWorkCheck() is false,
\* CheckProofOfWork returns true exactly when nBits decodes to a non-negative,
\* non-zero, non-overflowing target within powLimit and hash <= target; while
\* it is true, CheckProofOfWork returns true for every hash and nBits.
C5_CheckProofOfWork ==
    lastPow.op = "CheckProofOfWork" =>
        (lastPow.result
            <=> \/ fSkipProofOfWorkCheck
                \/ /\ ValidTarget(lastPow.nBits)
                   /\ BLe(lastPow.hash, SetCompact(lastPow.nBits)))

\* C5's case: a hash above an acceptable target, passed with the check skipped
C5_Witness ==
    /\ lastPow.op = "CheckProofOfWork"
    /\ fSkipProofOfWorkCheck
    /\ ValidTarget(lastPow.nBits)
    /\ BGt(lastPow.hash, SetCompact(lastPow.nBits))
    /\ lastPow.result

\* C5 as stated: for all chain parameters CheckProofOfWork returns true
\* exactly when the target is valid and hash <= target.
C5_AsStated ==
    lastPow.op = "CheckProofOfWork" =>
        (lastPow.result
            <=> /\ ValidTarget(lastPow.nBits)
                /\ BLe(lastPow.hash, SetCompact(lastPow.nBits)))

\* floor(2^256 / (target + 1)) for the target of each sample word, by long
\* division of 2^256 itself
FloorWork ==
    [nBits \in SampleBits |->
        BDiv(Zeros(32) \o <<1>>, BAdd(SetCompact(nBits), <<1>>))]

\* C6, as the code has it: GetBlockProof returns 0 when nBits is negative,
\* overflowing or zero, and floor(2^256 / (target + 1)) for every other
\* target, those above powLimit included.
C6_BlockProof ==
    lastPow.op = "GetBlockProof" =>
        lastPow.proof =
            IF \/ CompactNegative(lastPow.nBits)
               \/ CompactOverflow(lastPow.nBits)
               \/ SetCompact(lastPow.nBits) = <<>>
            THEN <<>>
            ELSE FloorWork[lastPow.nBits]

\* C6's case: the proof of a target above powLimit, which is not 0
C6_Witness ==
    /\ lastPow.op = "GetBlockProof"
    /\ ~CompactNegative(lastPow.nBits)
    /\ ~CompactOverflow(lastPow.nBits)
    /\ BGt(SetCompact(lastPow.nBits), powLimit)
    /\ lastPow.proof # <<>>
    /\ lastPow.proof = FloorWork[lastPow.nBits]

\* C6 as stated: GetBlockProof returns 0 for every nBits CheckProofOfWork
\* rejects, a target above powLimit included, and floor(2^256 / (target + 1))
\* otherwise.
C6_AsStated ==
    lastPow.op = "GetBlockProof" =>
        lastPow.proof =
            IF ValidTarget(lastPow.nBits) THEN FloorWork[lastPow.nBits] ELSE <<>>

\* the last two calls are GetBlockProof calls on targets a < b within powLimit
ProofsOfOrderedTargets ==
    /\ lastPow.op = "GetBlockProof"
    /\ prevProof.op = "GetBlockProof"
    /\ ValidTarget(prevProof.nBits)
    /\ ValidTarget(lastPow.nBits)
    /\ BLt(SetCompact(prevProof.nBits), SetCompact(lastPow.nBits))

\* C7: for the targets a, b of two blocks with 0 < a < b <= powLimit,
\* the proof of a is greater than the proof of b.
C7_ProofDecreasing ==
    ProofsOfOrderedTargets => BGt(prevProof.proof, lastPow.proof)

\* C7's case: the two largest targets under the limit, one mantissa step apart
C7_Witness ==
    /\ ProofsOfOrderedTargets
    /\ prevProof.nBits = 504365054
    /\ lastPow.nBits = 504365055
    /\ BGt(prevProof.proof, lastPow.proof)

\* the bytes of a target the compact form drops: all below the top three, or
\* below the top two when the top byte is 128 or more
CompactDropped(a) ==
    IF a = <<>> THEN 0
    ELSE IF a[Len(a)] >= 128
         THEN (IF Len(a) > 2 THEN Len(a) - 2 ELSE 0)
         ELSE (IF Len(a) > 3 THEN Len(a) - 3 ELSE 0)

\* a with its CompactDropped(a) low bytes cleared
CompactKept(a) ==
    BNorm(Zeros(CompactDropped(a)) \o SubSeq(a, CompactDropped(a) + 1, Len(a)))

\* C8, as the code has it: for every target t <= powLimit, decoding the
\* compact form of t gives t with the bytes the form drops cleared: a value
\* at most t, equal to t exactly when those bytes are zero, and whose own
\* compact form is that of t.
C8_CompactRoundTrip ==
    (lastPow.op = "Compact" /\ BLe(lastPow.target, powLimit)) =>
        /\ lastPow.decoded = CompactKept(lastPow.target)
        /\ BLe(lastPow.decoded, lastPow.target)
        /\ GetCompact(lastPow.decoded) = lastPow.nBits

\* C8's case: powLimit itself, which does not come back from its compact form
C8_Witness ==
    /\ lastPow.op = "Compact"
    /\ lastPow.target = powLimit
    /\ lastPow.decoded # lastPow.target
    /\ lastPow.decoded = SetCompact(nProofOfWorkLimit)

\* C8 as stated: for every target t <= powLimit, decoding the compact form of
\* t gives exactly t.
C8_AsStated ==
    (lastPow.op = "Compact" /\ BLe(lastPow.target, powLimit)) =>
        lastPow.decoded = lastPow.target

(***************************************************************************)
(* Properties of GravityAsert.                                             *)
(***************************************************************************)
\* the walk down from the tip of the last call does not reach nAnchorHeight
AnchorMissing ==
    \/ lastAsert.pindexLast = NULL
    \/ lastAsert.pindexLast < nAnchorHeight
    \/ LowestOf(chain) > nAnchorHeight

\* C9: when the tip is below the anchor height, or the walk back from the tip
\* ends without a node at the anchor height, GravityAsert returns the compact
\* form of powLimit and reads no anchor block.
C9_AnchorMissing ==
    (lastAsert.fCalled /\ AnchorMissing) =>
        /\ lastAsert.nBits = GetCompact(powLimit)
        /\ lastAsert.pindexAnchor = NULL

\* C9's case: a tip above the anchor height on an index that ends above it,
\* the blocks not at the limit
C9_Witness ==
    /\ lastAsert.fCalled
    /\ lastAsert.pindexLast > nAnchorHeight
    /\ LowestOf(chain) > nAnchorHeight
    /\ nBitsOf(chain, lastAsert.pindexLast) # GetCompact(powLimit)
    /\ lastAsert.nBits = GetCompact(powLimit)

\* C10 as stated: every GravityAsert computation for a tip at or above the
\* network's nASERTAnchor (2999999 on the main network) reads the block at
\* exactly that height as anchor.
C10_AnchorIsParameter ==
    (/\ lastAsert.fCalled
     /\ SetsASERTAnchor(net)
     /\ lastAsert.pindexLast >= nASERTAnchor(net)) =>
        lastAsert.pindexAnchor = nASERTAnchor(net)

(***************************************************************************)
(* Properties of the ASERT arithmetic, in GravityAsert and CalculateASERT. *)
(***************************************************************************)
\* GravityAsert computed from an anchor block whose nBits is a valid target
AsertComputed ==
    /\ lastAsert.fCalled
    /\ lastAsert.pindexAnchor # NULL
    /\ ValidTarget(nBitsOf(chain, lastAsert.pindexAnchor))

\* CalculateASERT returned from a reference target in (0, powLimit] and a
\* height difference of at least 0
CalcComputed ==
    /\ lastAsert.op = "CalculateASERT"
    /\ RefTargetInRange(lastAsert.refTarget)
    /\ lastAsert.nHeightDiff >= 0
    /\ ~lastAsert.result.aborted

\* C11: for an anchor target in (0, powLimit], any time difference and any
\* height difference >= 0, the target ASERT returns lies in [1, powLimit]:
\* a zero becomes 1 and anything above the limit becomes the limit.
C11_AsertInRange ==
    /\ AsertComputed => ValidTarget(lastAsert.nBits)
    /\ CalcComputed => RefTargetInRange(lastAsert.result.target)

\* C11's case: a tip so far ahead of schedule that the shifts leave nothing,
\* and GravityAsert returns the target 1
C11_Witness ==
    /\ AsertComputed
    /\ GetBlockTime(chain, lastAsert.pindexLast)
           - GetBlockTime(chain, lastAsert.pindexAnchor)
         < MarsTargetSpacing * (lastAsert.pindexLast - lastAsert.pindexAnchor)
    /\ lastAsert.nBits = GetCompact(<<1>>)

\* C12 as stated: powLimit is below 2^224 on every network, so the assertion
\* (powLimit >> 224) == 0 of CalculateASERT holds whenever a call reaches it
\* and the call returns.
C12_PowLimitLeavesRoom ==
    (/\ lastAsert.op = "CalculateASERT"
     /\ lastAsert.fAsserts
     /\ RefTargetInRange(lastAsert.refTarget)) =>
        /\ BShr(powLimit, 224) = <<>>
        /\ ~lastAsert.result.aborted

\* nTimeDiff and nHeightDiff of the last GravityAsert computation
AsertTimeDiff ==
    GetBlockTime(chain, lastAsert.pindexLast) - GetBlockTime(chain, lastAsert.pindexAnchor)

AsertHeightDiff == lastAsert.pindexLast - lastAsert.pindexAnchor

\* the smaller of 256 times the target a and powLimit
Times256Bounded(a) ==
    IF BGt(BMulSmall(a, 256), powLimit) THEN powLimit ELSE BMulSmall(a, 256)

\* C16, as the code has it: with half-life 7200 and spacing 123, a time
\* difference of 8 * 7200 + 123 * (nHeightDiff + 1) gives the exponent
\* 8 * 65536 exactly (shifts 8, frac 0) and the target min(256 * anchor
\* target, powLimit), from GravityAsert in compact form.
C16_EightHalfLives ==
    /\ (/\ AsertComputed
         /\ AsertTimeDiff = 8 * 7200 + 123 * (AsertHeightDiff + 1)) =>
           /\ AsertExponentAbs(AsertTimeDiff - 123 * (AsertHeightDiff + 1))
                 = BFromInt(8 * 65536)
           /\ AsertShifts(AsertTimeDiff - 123 * (AsertHeightDiff + 1)) = 8
           /\ AsertFrac(AsertTimeDiff - 123 * (AsertHeightDiff + 1)) = 0
           /\ lastAsert.nBits =
                 GetCompact(Times256Bounded(SetCompact(nBitsOf(chain, lastAsert.pindexAnchor))))
    /\ (/\ CalcComputed
         /\ lastAsert.nSpacing = 123
         /\ lastAsert.nTimeDiff = 8 * 7200 + 123 * (lastAsert.nHeightDiff + 1)) =>
           lastAsert.result.target = Times256Bounded(lastAsert.refTarget)

\* C16's case: a tip 100 blocks above an anchor block of target 1 and 8
\* half-lives behind schedule; GravityAsert returns the target 256
C16_Witness ==
    /\ AsertComputed
    /\ AsertHeightDiff = 100
    /\ AsertTimeDiff = 8 * 7200 + 123 * 101
    /\ SetCompact(nBitsOf(chain, lastAsert.pindexAnchor)) = <<1>>
    /\ SetCompact(lastAsert.nBits) = <<0, 1>>

\* C16 as stated: a time difference of 8 * 7200 + 123 * nHeightDiff gives
\* shifts 8, frac 0 and the target min(256 * anchor target, powLimit).
C16_AsStated ==
    /\ (/\ AsertComputed
         /\ AsertTimeDiff = 8 * 7200 + 123 * AsertHeightDiff) =>
           /\ AsertShifts(AsertTimeDiff - 123 * (AsertHeightDiff + 1)) = 8
           /\ AsertFrac(AsertTimeDiff - 123 * (AsertHeightDiff + 1)) = 0
           /\ lastAsert.nBits =
                 GetCompact(Times256Bounded(SetCompact(nBitsOf(chain, lastAsert.pindexAnchor))))
    /\ (/\ CalcComputed
         /\ lastAsert.nSpacing = 123
         /\ lastAsert.nTimeDiff = 8 * 7200 + 123 * lastAsert.nHeightDiff) =>
           lastAsert.result.target = Times256Bounded(lastAsert.refTarget)

\* nTimeDiff - spacing * (nHeightDiff + 1) of the last call, the numerator of
\* the exponent
AsertDrift ==
    IF lastAsert.op = "CalculateASERT"
    THEN lastAsert.nTimeDiff - lastAsert.nSpacing * (lastAsert.nHeightDiff + 1)
    ELSE AsertTimeDiff - MarsTargetSpacing * (AsertHeightDiff + 1)

\* C25: the exponent is split by an arithmetic shift: frac lies in
\* [0, 65535] and exponent = shifts * 65536 + frac, for negative exponents
\* too, so shifts is the floor of exponent / 65536: for a negative exponent
\* with a non-zero frac it is one below the quotient rounded toward zero.
C25_ExponentSplit ==
    (AsertComputed \/ CalcComputed) =>
        /\ AsertFrac(AsertDrift) \in 0 .. 65535
        /\ IF AsertDrift >= 0
           THEN /\ AsertShifts(AsertDrift) >= 0
                /\ BAdd(BMulSmall(BFromInt(AsertShifts(AsertDrift)), 65536),
                        BFromInt(AsertFrac(AsertDrift)))
                      = AsertExponentAbs(AsertDrift)
           ELSE /\ AsertShifts(AsertDrift) <= 0
                /\ BAdd(AsertExponentAbs(AsertDrift), BFromInt(AsertFrac(AsertDrift)))
                      = BMulSmall(BFromInt(-AsertShifts(AsertDrift)), 65536)

\* C25's case: a negative exponent with a non-zero frac; shifts is one below
\* the truncated quotient
C25_Witness ==
    /\ AsertComputed
    /\ AsertDrift < 0
    /\ AsertFrac(AsertDrift) # 0
    /\ AsertShifts(AsertDrift) = -BToInt(BShr(AsertExponentAbs(AsertDrift), 16)) - 1

(***************************************************************************)
(* Properties of GetNextWorkRequired_V1.                                   *)
(***************************************************************************)
\* the last call was answered by the retarget branch of GetNextWorkRequired_V1
V1Boundary ==
    /\ WorkCalled
    /\ lastWork.DiffMode = 1
    /\ (lastWork.pindexLast + 1) % V1Interval(lastWork.pindexLast + 1) = 0

\* pindexFirst of that call
V1First ==
    lastWork.pindexLast
       - V1BlocksToGoBack(lastWork.pindexLast, V1Interval(lastWork.pindexLast + 1))

\* the time from pindexFirst to the tip
V1Measured == GetBlockTime(chain, lastWork.pindexLast) - GetBlockTime(chain, V1First)

\* the smaller of k times the target a and powLimit
TimesBounded(a, k) ==
    IF BGt(BMulSmall(a, k), powLimit) THEN powLimit ELSE BMulSmall(a, k)

\* the retarget for the tip 4031 at twice the target timespan
TwiceSlow ==
    /\ V1Boundary
    /\ lastWork.pindexLast = 4031
    /\ V1Interval(4032) = 2016
    /\ V1Measured = 2 * nPowTargetTimespan

\* C17, as the code has it: at the tip 4031 with interval 2016 and a measured
\* timespan of twice the target timespan, the timespan is within the bounds
\* and is not clamped, and the target returned is min(2 * old target,
\* powLimit).
C17_TwiceSlow ==
    TwiceSlow =>
        /\ V1ClampTimespan(V1Measured, nPowTargetTimespan) = 2 * nPowTargetTimespan
        /\ lastWork.nBits =
              GetCompact(TimesBounded(SetCompact(nBitsOf(chain, 4031)), 2))

\* C17's case: blocks of target 0x0ffff0 * 256^25 spaced 300 seconds; the
\* target doubles
C17_Witness ==
    /\ TwiceSlow
    /\ nBitsOf(chain, 4031) = 470810608
    /\ SetCompact(lastWork.nBits) = BMulSmall(SetCompact(470810608), 2)

\* C17 as stated: the timespan is clamped to four times the target timespan
\* and the target returned is min(4 * old target, powLimit).
C17_AsStated ==
    TwiceSlow =>
        /\ V1ClampTimespan(V1Measured, nPowTargetTimespan) = 4 * nPowTargetTimespan
        /\ lastWork.nBits =
              GetCompact(TimesBounded(SetCompact(nBitsOf(chain, 4031)), 4))

\* the last call was answered by GetNextWorkRequired_V1 off a retarget boundary
V1Off ==
    /\ WorkCalled
    /\ lastWork.DiffMode = 1
    /\ (lastWork.pindexLast + 1) % V1Interval(lastWork.pindexLast + 1) # 0

\* the candidate header of that call is more than two spacings after the tip
V1LateCandidate ==
    lastWork.pblockTime > GetBlockTime(chain, lastWork.pindexLast)
                             + 2 * V1TargetSpacing(lastWork.pindexLast + 1)

\* a node at which the walk back over min-difficulty blocks stops
V1WalkStops(p) ==
    \/ p = LowestOf(chain)
    \/ p % V1Interval(lastWork.pindexLast + 1) = 0
    \/ nBitsOf(chain, p) # GetCompact(powLimit)

\* the lowest node the walk can reach: no stop lies more than an interval down
V1WalkFloor ==
    IF lastWork.pindexLast - V1Interval(lastWork.pindexLast + 1) > LowestOf(chain)
    THEN lastWork.pindexLast - V1Interval(lastWork.pindexLast + 1)
    ELSE LowestOf(chain)

\* C18: off a retarget boundary V1 returns the tip's nBits when the network
\* does not allow min-difficulty blocks; when it does, the compact form of
\* powLimit for a candidate more than two spacings after the tip, and
\* otherwise the nBits of the first node walking back from the tip that has
\* no predecessor, or a height on the interval, or an nBits other than the
\* compact powLimit.
C18_OffBoundary ==
    V1Off =>
        /\ ~fPowAllowMinDifficultyBlocks(net) =>
              lastWork.nBits = nBitsOf(chain, lastWork.pindexLast)
        /\ (fPowAllowMinDifficultyBlocks(net) /\ V1LateCandidate) =>
              lastWork.nBits = GetCompact(powLimit)
        /\ (fPowAllowMinDifficultyBlocks(net) /\ ~V1LateCandidate) =>
              \E p \in V1WalkFloor .. lastWork.pindexLast :
                 /\ V1WalkStops(p)
                 /\ \A q \in (p + 1) .. lastWork.pindexLast : ~V1WalkStops(q)
                 /\ lastWork.nBits = nBitsOf(chain, p)

\* C18's case: a walk over min-difficulty blocks that stops at a height on the
\* interval, below the tip and above the lowest node, and returns that
\* node's nBits
C18_Witness ==
    /\ V1Off
    /\ fPowAllowMinDifficultyBlocks(net)
    /\ ~V1LateCandidate
    /\ \E p \in V1WalkFloor .. lastWork.pindexLast :
          /\ p < lastWork.pindexLast
          /\ p > LowestOf(chain)
          /\ p % V1Interval(lastWork.pindexLast + 1) = 0
          /\ nBitsOf(chain, p) = GetCompact(powLimit)
          /\ \A q \in (p + 1) .. lastWork.pindexLast : ~V1WalkStops(q)
          /\ lastWork.nBits = nBitsOf(chain, p)

\* the measured timespan of the last retarget brought into
\* [timespan / 4, timespan * 4]
V1Actual ==
    IF V1Measured < V1TargetTimespan(lastWork.pindexLast + 1) \div 4
    THEN V1TargetTimespan(lastWork.pindexLast + 1) \div 4
    ELSE IF V1Measured > V1TargetTimespan(lastWork.pindexLast + 1) * 4
    THEN V1TargetTimespan(lastWork.pindexLast + 1) * 4
    ELSE V1Measured

\* old target * actual / timespan, in whole numbers
V1Scaled ==
    BDiv(BMulSmall(SetCompact(nBitsOf(chain, lastWork.pindexLast)), V1Actual),
         BFromInt(V1TargetTimespan(lastWork.pindexLast + 1)))

\* C19: on a retarget boundary the measured timespan tip.time - first.time
\* is clamped into [timespan / 4, timespan * 4], a negative one becoming
\* timespan / 4, and V1 returns the compact form of min(old target * actual
\* / timespan, powLimit); the new target never exceeds min(4 * old target,
\* powLimit).
C19_BoundaryClamp ==
    V1Boundary =>
        /\ V1ClampTimespan(V1Measured, V1TargetTimespan(lastWork.pindexLast + 1)) = V1Actual
        /\ lastWork.nBits = GetCompact(IF BGt(V1Scaled, powLimit) THEN powLimit ELSE V1Scaled)
        /\ BLe(SetCompact(lastWork.nBits),
               TimesBounded(SetCompact(nBitsOf(chain, lastWork.pindexLast)), 4))

\* C19's case: a tip stamped before the block 2016 below it; the negative
\* timespan counts as a quarter of the target timespan and the target falls
\* to a quarter
C19_Witness ==
    /\ V1Boundary
    /\ V1Measured < 0
    /\ V1Actual = nPowTargetTimespan \div 4
    /\ lastWork.nBits = GetCompact(BDivSmall(SetCompact(nBitsOf(chain, lastWork.pindexLast)), 4))

\* the last call was answered by GetNextWorkRequired_V1
V1Called == WorkCalled /\ lastWork.DiffMode = 1

\* the interval of the code at the height h: 2016 below nForkTwo, 721 from
\* there on
V1CodeInterval(h) == IF h >= 70000 THEN 721 ELSE 2016

C21_FirstExists ==
    (V1Boundary /\ LowestOf(chain) = 0) =>
        /\ V1BlocksToGoBack(lastWork.pindexLast, V1Interval(lastWork.pindexLast + 1))
              = IF lastWork.pindexLast + 1 = V1Interval(lastWork.pindexLast + 1)
                THEN V1Interval(lastWork.pindexLast + 1) - 1
                ELSE V1Interval(lastWork.pindexLast + 1)
        /\ V1First >= 0
        /\ WalkBack(chain, lastWork.pindexLast,
                    V1BlocksToGoBack(lastWork.pindexLast,
                                     V1Interval(lastWork.pindexLast + 1))) = V1First
        /\ lastWork.pindexLast + 1 = V1Interval(lastWork.pindexLast + 1) => V1First = 0
        /\ lastWork.nBits # AssertFailed

\* C21's case: the first retarget after genesis, at the next height 2016; the
\* walk of 2015 steps ends at genesis
C21_Witness ==
    /\ V1Boundary
    /\ LowestOf(chain) = 0
    /\ lastWork.pindexLast + 1 = 2016
    /\ V1First = 0
    /\ lastWork.nBits # AssertFailed

\* the old target of the last retarget
V1Old == SetCompact(nBitsOf(chain, lastWork.pindexLast))

\* the guard of the retarget fires: the old target has more than 235 bits
V1Guarded == BBits(V1Old) > 235

\* the factor of the multiplication: the old target, halved under the guard
V1Factor == IF V1Guarded THEN BShr(V1Old, 1) ELSE V1Old

\* C22: for an old target up to powLimit and a clamped timespan, under the
\* timespan 302400 and under 88775, the product of the old target (shifted
\* right once when it has more than 235 bits) and the timespan is below
\* 2^256, and under the guard the result is floor(target * actual / timespan)
\* or that less the one bit lost to the shift.
C22_OverflowGuard ==
    (V1Boundary /\ BLe(V1Old, powLimit)) =>
        /\ BBits(BMulSmall(V1Factor, V1Actual)) <= 256
        /\ BBits(BMulSmall(BShr(powLimit, 1), 4 * nPowTargetTimespan)) <= 256
        /\ BBits(BMulSmall(BSub(BShl(<<1>>, 235), <<1>>), 4 * nPowTargetTimespan)) <= 256
        /\ lastWork.nBits \in
              {GetCompact(IF BGt(V1Scaled, powLimit) THEN powLimit ELSE V1Scaled),
               GetCompact(IF BGt(V1Scaled, powLimit) THEN powLimit
                          ELSE BSub(V1Scaled, <<1>>))}
        /\ V1Guarded =>
              /\ BLe(V1Retarget(V1Old, V1Actual, V1TargetTimespan(lastWork.pindexLast + 1)),
                     V1Scaled)
              /\ BLe(V1Scaled,
                     BAdd(V1Retarget(V1Old, V1Actual,
                                     V1TargetTimespan(lastWork.pindexLast + 1)), <<1>>))

\* C22's case: an old target of 236 bits and a timespan clamped to four times
\* 302400; the target itself times the timespan would not fit 256 bits, the
\* halved target times the timespan does
C22_Witness ==
    /\ V1Boundary
    /\ BLe(V1Old, powLimit)
    /\ V1Guarded
    /\ V1Actual = 4 * nPowTargetTimespan
    /\ BBits(BMulSmall(V1Old, V1Actual)) > 256
    /\ BBits(BMulSmall(V1Factor, V1Actual)) <= 256
    /\ lastWork.nBits = GetCompact(powLimit)

(***************************************************************************)
(* Properties of the DarkGravityWave walks.                                *)
(***************************************************************************)
\* DarkGravityWave2 gave the last result from a walk over the blocks
DGW2Walked ==
    /\ WorkCalled
    /\ lastWork.DiffMode = 4
    /\ lastWork.pindexLast >= DGW2PastBlocksMin

\* the loop variables of DarkGravityWave2 at the end of the walk of the last call
Window2 ==
    DGW2Walk(chain, lastWork.pindexLast, 1,
             WalkCount(chain, lastWork.pindexLast, DGW2PastBlocksMax), DGW2Start)

\* the k-th gap counted down from the tip of the last call
TipGap(k) ==
    GetBlockTime(chain, lastWork.pindexLast - k + 1)
       - GetBlockTime(chain, lastWork.pindexLast - k)

\* the running average ((gap - prev) / k) + prev over the first k gaps
RECURSIVE GapAverage(_)
GapAverage(k) ==
    IF k = 1 THEN TipGap(1)
    ELSE CHOOSE r \in {TruncDiv(TipGap(k) - prev, k) + prev :
                          prev \in {GapAverage(k - 1)}} : TRUE

\* C23, as the code has it: over a window of more than 15 blocks the time
\* average nBlockTimeAverage of DarkGravityWave2 is updated for the first 15
\* gaps, its counter ending at 15, while nBlockTimeSum2 and nBlockTimeCount2
\* take in every gap of the window.
C23_TimeAverage ==
    (DGW2Walked /\ Window2.CountBlocks > 15) =>
        /\ Window2.nBlockTimeCount = 15
        /\ Window2.nBlockTimeAverage = GapAverage(15)
        /\ Window2.nBlockTimeCount2 = Window2.CountBlocks - 1
        /\ Window2.nBlockTimeSum2 =
              GetBlockTime(chain, lastWork.pindexLast)
                 - GetBlockTime(chain, lastWork.pindexLast - (Window2.CountBlocks - 1))

\* C23's case: a window whose fifteenth gap is ten times the others; the gap
\* enters the time average
C23_Witness ==
    /\ DGW2Walked
    /\ Window2.CountBlocks = 140
    /\ TipGap(14) = 123
    /\ TipGap(15) = 1230
    /\ GapAverage(14) = 123
    /\ Window2.nBlockTimeAverage = 123 + (1230 - 123) \div 15

\* C23 as stated: the time average is updated for the first 14 gaps only,
\* and its counter does not exceed 14.
C23_AsStated ==
    (DGW2Walked /\ Window2.CountBlocks > 15) =>
        /\ Window2.nBlockTimeCount <= 14
        /\ Window2.nBlockTimeAverage = GapAverage(14)
        /\ Window2.nBlockTimeCount2 = Window2.CountBlocks - 1

\* the loop variables of DarkGravityWave3 at the end of the walk of the last call
Window3 ==
    DGW3Walk(chain, lastWork.pindexLast, 1,
             WalkCount(chain, lastWork.pindexLast, DGW3PastBlocksMax), DGW3Start)

\* DarkGravityWave3 gave the last result
Wave3Called == WorkCalled /\ lastWork.DiffMode = 5

\* avg * actual / target_span for the loop variables st, actual the clamped
\* timespan
Wave3Scaled(st) ==
    BDivSmall(BMulSmall(st.PastDifficultyAverage,
                        ClampTimespan3(st.nActualTimespan,
                                       st.CountBlocks * MarsTargetSpacing)),
              st.CountBlocks * MarsTargetSpacing)

\* the smaller of a and pow_limit
UpToLimit(a) == IF BGt(a, powLimit) THEN powLimit ELSE a

\* a cut down to the three leading bytes a compact word keeps
CompactOf(a) == SetCompact(GetCompact(a))

\* C24, as the code has it: DarkGravityWave3 returns compact(pow_limit) when
\* the tip is below height 24, and when the average of the window is 0 or
\* above pow_limit; otherwise, with 24 blocks read and a target span of 2952,
\* the timespan is clamped into [984, 8856], the result is
\* compact(min(avg * actual / 2952, pow_limit)), and the target it stands for
\* lies between floor(avg / 3) cut to the three bytes of a compact word and
\* min(3 * avg, pow_limit).
C24_Wave3Result ==
    Wave3Called =>
        IF lastWork.pindexLast < DGW3PastBlocksMin
        THEN lastWork.nBits = GetCompact(powLimit)
        ELSE \A st \in {Window3} :
             /\ st.CountBlocks = 24
             /\ ClampTimespan3(st.nActualTimespan, 2952) \in 984 .. 8856
             /\ IF st.PastDifficultyAverage = <<>> \/ BGt(st.PastDifficultyAverage, powLimit)
                THEN lastWork.nBits = GetCompact(powLimit)
                ELSE /\ lastWork.nBits = GetCompact(UpToLimit(Wave3Scaled(st)))
                     /\ BLe(SetCompact(lastWork.nBits),
                            UpToLimit(BMulSmall(st.PastDifficultyAverage, 3)))
                     /\ BLe(CompactOf(BDivSmall(st.PastDifficultyAverage, 3)),
                            SetCompact(lastWork.nBits))

\* C24's cases: a tip below 24; a fast window clamped to a third, the result
\* below floor(avg / 3); a slow window clamped to three times the average;
\* a slow window at the limit
C24_Witness ==
    /\ Wave3Called
    /\ \/ lastWork.pindexLast = 23 /\ lastWork.nBits = GetCompact(powLimit)
       \/ /\ lastWork.pindexLast >= DGW3PastBlocksMin
          /\ Window3.nActualTimespan < 984
          /\ Window3.PastDifficultyAverage # <<>>
          /\ ~BLe(BDivSmall(Window3.PastDifficultyAverage, 3), SetCompact(lastWork.nBits))

\* C24 as stated: above height 24 the returned target lies between
\* floor(avg / 3) and min(3 * avg, pow_limit).
C24_AsStated ==
    (Wave3Called /\ lastWork.pindexLast >= DGW3PastBlocksMin) =>
        /\ BLe(BDivSmall(Window3.PastDifficultyAverage, 3), SetCompact(lastWork.nBits))
        /\ BLe(SetCompact(lastWork.nBits),
               UpToLimit(BMulSmall(Window3.PastDifficultyAverage, 3)))

\* the oldest block a full window of the last call reads
Wave3Oldest == lastWork.pindexLast - (DGW3PastBlocksMax - 1)

\* C30: over a full window DarkGravityWave3 reads 24 blocks, the last of them
\* 23 below the tip, and sums the 23 gaps between them: the timespan before
\* clamping is the tip's time less the time of the oldest block read,
\* whatever the times in between, and it is set against a target timespan of
\* 24 * 123 = 2952 seconds.
C30_Telescope ==
    (Wave3Called /\ lastWork.pindexLast >= DGW3PastBlocksMin) =>
        \A st \in {Window3} :
           /\ st.CountBlocks = 24
           /\ st.LastBlockTime = GetBlockTime(chain, Wave3Oldest)
           /\ st.nActualTimespan =
                 GetBlockTime(chain, lastWork.pindexLast) - GetBlockTime(chain, Wave3Oldest)
           /\ (st.PastDifficultyAverage # <<>>
                 /\ BLe(st.PastDifficultyAverage, powLimit)) =>
                 lastWork.nBits =
                    GetCompact(UpToLimit(BDivSmall(
                        BMulSmall(st.PastDifficultyAverage,
                                  ClampTimespan3(GetBlockTime(chain, lastWork.pindexLast)
                                                    - GetBlockTime(chain, Wave3Oldest),
                                                 2952)),
                        2952)))

\* C30's case: a window whose newest gap is 400 seconds and whose 22 other
\* gaps are 123 seconds
C30_Witness ==
    /\ Wave3Called
    /\ lastWork.pindexLast >= DGW3PastBlocksMin
    /\ GetBlockTime(chain, lastWork.pindexLast)
          - GetBlockTime(chain, lastWork.pindexLast - 1) = 400
    /\ GetBlockTime(chain, lastWork.pindexLast - 1) - GetBlockTime(chain, Wave3Oldest)
          = 22 * 123
    /\ Window3.nActualTimespan = 22 * 123 + 400

(***************************************************************************)
(* Properties of the two ASERT implementations taken together.             *)
(***************************************************************************)
\* CalculateASERT was called with the arguments GravityAsert computes for the
\* tip: the anchor block's target in (0, powLimit], the spacing 123, the
\* time and height differences from the anchor block to the tip
CalcAsGravityAsert ==
    /\ lastAsert.op = "CalculateASERT"
    /\ RefTargetInRange(lastAsert.refTarget)
    /\ lastAsert.refTarget = SetCompact(nBitsOf(chain, nAnchorHeight))
    /\ lastAsert.nSpacing = MarsTargetSpacing
    /\ lastAsert.nHeightDiff >= 0

\* refTarget * factor shifted by shifts - 16 with no bound on its width
CalcWide ==
    AsertShifted(BMulSmall(lastAsert.refTarget, AsertFactor(AsertFrac(AsertDrift))),
                 AsertShifts(AsertDrift) - 16)

NextWorkComputed ==
    /\ lastAsert.op = "GetNextASERTWorkRequired"
    /\ lastAsert.result.stopped # "GetNextASERTWorkRequired"

\* C27, as the code has it: GravityAsert takes the time difference from the
\* anchor block's own time stamp to the tip's and a height difference of at
\* least 0; GetNextASERTWorkRequired takes the time difference from the time
\* stamp of the anchor block's parent, from the anchor block's own only when
\* it has no parent, and its height difference is pindexPrev's height less
\* the anchor's, at least 0 when the assertions are compiled in.
C27_TimeDiff ==
    /\ AsertComputed =>
          /\ lastAsert.pindexAnchor = nAnchorHeight
          /\ AsertHeightDiff >= 0
          /\ lastAsert.nBits =
                GetCompact(CalcTarget(SetCompact(nBitsOf(chain, lastAsert.pindexAnchor)),
                                      MarsTargetSpacing, AsertTimeDiff, AsertHeightDiff))
    /\ NextWorkComputed =>
          /\ lastAsert.result.nTimeDiff =
                GetBlockTime(chain, lastAsert.pindexLast)
                   - (IF lastAsert.pindexAnchor > LowestOf(chain)
                      THEN GetBlockTime(chain, lastAsert.pindexAnchor - 1)
                      ELSE GetBlockTime(chain, lastAsert.pindexAnchor))
          /\ lastAsert.result.nHeightDiff = lastAsert.pindexLast - lastAsert.pindexAnchor
          /\ lastAsert.fAsserts => lastAsert.result.nHeightDiff >= 0

\* C27's case: GetNextASERTWorkRequired on an anchor block with a parent
\* 123 seconds older; the time difference is 123 seconds more than that to
\* the anchor block itself
C27_Witness ==
    /\ NextWorkComputed
    /\ lastAsert.pindexLast > lastAsert.pindexAnchor
    /\ lastAsert.pindexAnchor > LowestOf(chain)
    /\ lastAsert.result.nTimeDiff =
          GetBlockTime(chain, lastAsert.pindexLast)
             - GetBlockTime(chain, lastAsert.pindexAnchor) + 123

\* C27 as stated: GetNextASERTWorkRequired too takes the time difference from
\* the anchor block's own time stamp, and its height difference is at least 0.
C27_AsStated ==
    NextWorkComputed =>
        /\ lastAsert.result.nTimeDiff =
              GetBlockTime(chain, lastAsert.pindexLast)
                 - GetBlockTime(chain, lastAsert.pindexAnchor)
        /\ lastAsert.result.nHeightDiff >= 0

\* |nTimeDiff - nSpacing * nHeightDiff| < 2^47 for the last call on a wide
\* time difference
WithinAssertedBound ==
    BLt(IF lastAsert.nTimeDiff.neg
        THEN BAdd(lastAsert.nTimeDiff.mag,
                  BFromInt(lastAsert.nSpacing * lastAsert.nHeightDiff))
        ELSE BSub(lastAsert.nTimeDiff.mag,
                  BFromInt(lastAsert.nSpacing * lastAsert.nHeightDiff)),
        BShl(<<1>>, 47))

\* C28 as stated: a call reaches the multiplication (nTimeDiff - spacing *
\* (nHeightDiff + 1)) * 65536 only with |nTimeDiff - spacing * nHeightDiff|
\* < 2^47, and the multiplication then stays within 64 signed bits.
C28_AssertedBound ==
    (lastAsert.op = "CalculateASERTWide" /\ lastAsert.result.multiplied) =>
        /\ WithinAssertedBound
        /\ ~lastAsert.result.overflow

\* 195766423245049 * frac + 971821376 * frac^2 + 5127 * frac^3 + 2^47 of the
\* last call, computed without a bound on its width
FactorSumExact ==
    BAdd(BAdd(BAdd(BMulSmall(<<249, 208, 29, 108, 12, 178>>, lastAsert.frac),
                   BMulSmall(BMulSmall(BFromInt(971821376), lastAsert.frac),
                             lastAsert.frac)),
              BMulSmall(BMulSmall(BMulSmall(BFromInt(5127), lastAsert.frac),
                                  lastAsert.frac), lastAsert.frac)),
         BShl(<<1>>, 47))

\* C29: for every frac in [0, 65535] the sum evaluated in unsigned 64-bit
\* arithmetic does not wrap: the exact sum has at most 64 bits and the factor
\* is 65536 plus its bits from 48 up; the factor lies in [65536, 131071], is
\* not below the factor of frac - 1, and has few enough bits for its product
\* with pow_limit, hence with every anchor target up to pow_limit, to fit in
\* 256 bits.
C29_FactorSum ==
    lastAsert.op = "AsertFactor" =>
        /\ \A sum \in {FactorSumExact} :
              /\ BBits(sum) <= 64
              /\ lastAsert.factor = 65536 + BToInt(BShr(sum, 48))
        /\ lastAsert.factor \in 65536 .. 131071
        /\ lastAsert.below <= lastAsert.factor
        /\ BBits(powLimit) + BitLen(lastAsert.factor) <= 256

\* C29's case: the largest frac; the sum takes all 64 bits and the factor is
\* 131071
C29_Witness ==
    /\ lastAsert.op = "AsertFactor"
    /\ lastAsert.frac = 65535
    /\ BBits(FactorSumExact) = 64
    /\ lastAsert.factor = 131071
    /\ lastAsert.below <= 131071

(***************************************************************************)
(* Properties of the chain parameters.                                     *)
(***************************************************************************)
FixedNetworks == {"MAIN", "TESTNET", "TESTNET4", "REGTEST"}

\* C13: GetNetworkForMagic returns a network exactly when the four bytes are
\* that network's message start, and nothing for every other input: fb c0 b6
\* db gives MAIN, 00 00 00 00 gives nothing, and the four fixed message starts
\* differ from one another, so no comparison hides a later one.
C13_NetworkForMagic ==
    /\ lastPow.op = "GetNetworkForMagic" =>
          /\ \A n \in Networks :
                lastPow.result = n <=> lastPow.message = pchMessageStart(n)
          /\ lastPow.result = nullopt <=>
                \A n \in Networks : lastPow.message # pchMessageStart(n)
          /\ lastPow.message = <<251, 192, 182, 219>> => lastPow.result = "MAIN"
          /\ lastPow.message = <<0, 0, 0, 0>> => lastPow.result = nullopt
    /\ \A m, n \in FixedNetworks : m # n => pchMessageStart(m) # pchMessageStart(n)

\* C13's case: the regtest bytes, which share their first byte with the
\* testnet bytes compared before them, give REGTEST
C13_Witness ==
    /\ lastPow.op = "GetNetworkForMagic"
    /\ lastPow.message = pchMessageStart("REGTEST")
    /\ lastPow.message[1] = pchMessageStart("TESTNET")[1]
    /\ lastPow.result = "REGTEST"

(***************************************************************************)
(* Worked cases of the difficulty algorithms.                              *)
(***************************************************************************)
\* GetNextWorkRequired was last called on the genesis block of the main network
MainGenesisTip ==
    /\ WorkCalled
    /\ net = "MAIN"
    /\ lastWork.pindexLast = 0

\* C14, as the code has it: on the main network GetNextWorkRequired for the
\* genesis tip returns 0x1e0ffff0, the genesis block's own nBits; the compact
\* form of powLimit is another word, 0x1e0fffff.
C14_GenesisTip ==
    MainGenesisTip =>
        /\ lastWork.nBits = 504365040
        /\ lastWork.nBits = nBitsOf(chain, 0)
        /\ GetCompact(powLimit) = 504365055

\* C14's case: the required work of the block on top of the main network's
\* genesis block
C14_Witness ==
    /\ MainGenesisTip
    /\ lastWork.DiffMode = 1
    /\ lastWork.nBits = 504365040

\* C14 as stated: the word returned for the genesis tip, 0x1e0ffff0, is the
\* compact form of the main network's powLimit.
C14_AsStated ==
    MainGenesisTip =>
        /\ lastWork.nBits = 504365040
        /\ lastWork.nBits = GetCompact(powLimit)

\* DarkGravityWave3 gave the last result, from a window of 24 blocks of one
\* nBits, each 123 seconds after its predecessor
ExactWindow3 ==
    /\ WorkCalled
    /\ lastWork.DiffMode = 5
    /\ lastWork.pindexLast - DGW3PastBlocksMax >= LowestOf(chain)
    /\ \A h \in (lastWork.pindexLast - DGW3PastBlocksMax + 1) .. lastWork.pindexLast :
          /\ GetBlockTime(chain, h) - GetBlockTime(chain, h - 1) = MarsTargetSpacing
          /\ nBitsOf(chain, h) = nBitsOf(chain, lastWork.pindexLast)

\* C15, as the code has it: over a window of 24 blocks spaced exactly 123
\* seconds the 23 gaps inside the window add up to +2829 seconds, which lies
\* within [984, 8856] and is not clamped, and the result is the compact form
\* of avg * 2829 / 2952.
C15_ExactWindow ==
    ExactWindow3 =>
        /\ Window3.CountBlocks = 24
        /\ Window3.nActualTimespan = 23 * 123
        /\ Window3.PastDifficultyAverage = SetCompact(nBitsOf(chain, lastWork.pindexLast))
        /\ ClampTimespan3(Window3.nActualTimespan, 24 * 123) = 2829
        /\ lastWork.nBits =
              GetCompact(BDivSmall(BMulSmall(Window3.PastDifficultyAverage, 2829), 2952))

\* C15's case: such a window of blocks at the genesis target; the result is a
\* little below the blocks' target, not a third of it
C15_Witness ==
    /\ ExactWindow3
    /\ nBitsOf(chain, lastWork.pindexLast) = 504365040
    /\ lastWork.nBits # GetCompact(BDivSmall(SetCompact(504365040), 3))
    /\ BLt(SetCompact(lastWork.nBits), SetCompact(504365040))

\* C15 as stated: the timespan accumulated is -24 * 123 = -2952, it is
\* clamped up to 984, and the result is the compact form of avg * 984 / 2952.
C15_AsStated ==
    ExactWindow3 =>
        /\ Window3.nActualTimespan = 0 - 24 * 123
        /\ ClampTimespan3(Window3.nActualTimespan, 24 * 123) = 984
        /\ lastWork.nBits =
              GetCompact(BDivSmall(BMulSmall(Window3.PastDifficultyAverage, 984), 2952))
====
